---- MODULE Spec2Model ----
(***************************************************************************)
(* A model of the pog-rs simulator: wallet signing and verification, the   *)
(* path-traced transaction model, block assembly, the Blockchain append    *)
(* rule, and the node / WorldState actors that gossip blocks and run       *)
(* block-sync.                                                             *)
(*                                                                         *)
(* Hashes are modelled as injective encodings of what is hashed (tuples);  *)
(* timestamps are left out of a header hash.  A signature is modelled by   *)
(* what its string decodes to: the (signer, message) it was made for, or   *)
(* the way in which the string is malformed.                               *)
(***************************************************************************)
EXTENDS Integers, Sequences, FiniteSets, Bags, TLC

(***************************************************************************)
(* Bounds of the model.                                                    *)
(***************************************************************************)
\* Ticks of the slot clock, and the slots the model gives an epoch.
MaxTicks == 3
SlotsPerEpoch == 2
MaxChainLen == 3
MaxHops == 3
\* Slots of a run of the network, and transactions the generator asks for.
MaxSlots == 4
MaxTx == 1
\* The PoG engine alone: the initial NTD, the epochs ended, and the paths of
\* an epoch and their lengths.
MaxNtd == 3
MaxEpochs == 12
MaxPaths == 2
MaxPathLen == 3
\* Proposer election: the validators of a snapshot and their stakes, the draws
\* a seed can give, the scores of a history.
MaxValidators == 2
MaxStake == 2
Seeds == 3
MaxScore == 1
MaxDifficulty == 1
\* The timer and the RANDAO contributions: the bits and the values of a seed,
\* the contributions of a slot, the configured slots per epoch.
SeedBits == 2
MaxSeed == 2
MaxSeeds == 2
MaxSlotPerEpoch == 3
\* One node: the messages sent to it, the fee and the balance.
MaxSent == 3
MaxFee == 1
MaxBalance == 1

\* PoW race: the nonces a mining thread tries, and the polls of the main
\* thread before the timeout is certain.
MaxAttempts == 2

MaxPolls == 2
\* Block-sync: the slots of the network in which the chains fork.
MaxSyncSlots == 2
\* The messages a node's mailbox and WorldState's mailbox hold.
MailboxCapacity == 2

WorldMailboxCapacity == 2

(***************************************************************************)
(* Program constants.                                                      *)
(***************************************************************************)
SigBodyLen == 128
SigLen == 130
VBase == 27
MaxRecoveryId == 3

(***************************************************************************)
(* Wallets.  A wallet is identified with its address; the BLS public key   *)
(* of a wallet is identified with the wallet as well.  NoKeyAddr is an     *)
(* address that never went through Wallet::new, so the registry has no     *)
(* BLS key for it.                                                         *)
(***************************************************************************)
Wallets == {1, 2}
GenesisMiner == 3
NoKeyAddr == 0
Addresses == Wallets \cup {NoKeyAddr}
EmptyHash == <<>>
None == <<>>

\* wallet/mod.rs get_bls_pub_key: Some(pk) for a registered address.
get_bls_pub_key(address) ==
    IF address \in Wallets \cup {GenesisMiner} THEN <<address>> ELSE None

(***************************************************************************)
(* ECDSA signature strings.  len is the number of characters after the     *)
(* 0x prefix, hex says that the first 128 characters are hex digits, vhex  *)
(* that the two characters of v are, v is the value of that byte, curve    *)
(* says that (r, s, v) is a point from which a public key is recovered.    *)
(***************************************************************************)
Wallet_sign(wallet, msg) ==
    [len |-> SigLen, hex |-> TRUE, vhex |-> TRUE, v |-> VBase,
     curve |-> TRUE, signer |-> wallet, msg |-> msg]

\* The public key recovered from a signature over another message is a key
\* of no wallet.
StrangerKey == -1

Wallet_recover_pubkey(msg, signature) ==
    IF signature.len < SigBodyLen THEN [tag |-> "panic"]
    ELSE IF ~signature.hex THEN [tag |-> "err"]
    ELSE IF signature.len < SigLen THEN [tag |-> "panic"]
    ELSE IF ~signature.vhex THEN [tag |-> "err"]
    ELSE IF signature.v < VBase THEN [tag |-> "panic"]
    ELSE IF signature.v - VBase > MaxRecoveryId THEN [tag |-> "panic"]
    ELSE IF ~signature.curve THEN [tag |-> "panic"]
    ELSE [tag |-> "ok",
          pk |-> IF signature.msg = msg THEN signature.signer ELSE StrangerKey]

Wallet_verify_by_address(msg, signature, address) ==
    LET r == Wallet_recover_pubkey(msg, signature)
    IN  IF r.tag = "panic" THEN "panic"
        ELSE IF r.tag = "err" THEN "false"
        ELSE IF r.pk = address THEN "true" ELSE "false"

(***************************************************************************)
(* BLS signature strings.  A well-formed one decodes to the bag of         *)
(* (key, message) pairs it aggregates; "nonhex" is a string hex::decode    *)
(* rejects; "badbytes" is hex that is not a signature; "empty" is the      *)
(* empty string bls_aggregated_sign returns for no signatures.             *)
(***************************************************************************)
Wallet_sign_by_bls(wallet, msg) ==
    [kind |-> "sig", pairs |-> SetToBag({<<wallet, msg>>})]

Wallet_bls_signature_from_string(signature) ==
    IF signature.kind = "nonhex" THEN "err"
    ELSE IF signature.kind = "sig" THEN "ok"
    ELSE "panic"

RECURSIVE SumBags(_)
SumBags(sigs) ==
    IF Len(sigs) = 0 THEN EmptyBag
    ELSE Head(sigs).pairs (+) SumBags(Tail(sigs))

Wallet_bls_aggregated_sign(signatures) ==
    IF Len(signatures) = 0 THEN [kind |-> "empty", pairs |-> EmptyBag]
    ELSE [kind |-> "sig", pairs |-> SumBags(signatures)]

RECURSIVE PairBag(_, _)
PairBag(messages, public_keys) ==
    IF Len(messages) = 0 THEN EmptyBag
    ELSE SetToBag({<<Head(public_keys)[1], Head(messages)>>})
         (+) PairBag(Tail(messages), Tail(public_keys))

Wallet_verify_bls_with_pk(msg, signature, public_key) ==
    LET p == Wallet_bls_signature_from_string(signature)
    IN  IF p = "panic" THEN "panic"
        ELSE IF p = "err" THEN "false"
        ELSE IF signature.pairs = SetToBag({<<public_key[1], msg>>})
             THEN "true" ELSE "false"

Wallet_bls_aggregated_verify(messages, public_keys, signature) ==
    LET p == Wallet_bls_signature_from_string(signature)
    IN  IF p = "panic" THEN "panic"
        ELSE IF p = "err" THEN "false"
        ELSE IF Len(messages) = 0 \/ Len(messages) # Len(public_keys)
             THEN "false"
        ELSE IF signature.pairs = PairBag(messages, public_keys)
             THEN "true" ELSE "false"

(***************************************************************************)
(* Transactions.                                                           *)
(***************************************************************************)
TxHash(from, to, timestamp) == <<"tx", from, to, timestamp>>

Transaction_new(to, timestamp, wallet) ==
    [from |-> wallet, to |-> to, timestamp |-> timestamp,
     hash |-> TxHash(wallet, to, timestamp),
     signature |-> Wallet_sign(wallet, TxHash(wallet, to, timestamp))]

Transaction_verify(t) ==
    IF t.hash # TxHash(t.from, t.to, t.timestamp) THEN "false"
    ELSE Wallet_verify_by_address(TxHash(t.from, t.to, t.timestamp),
                                  t.signature, t.from)

(***************************************************************************)
(* Paths.                                                                  *)
(***************************************************************************)
concat_tx_hash_with_to_hash_static(tx_hash, to) == <<tx_hash, to>>

TransactionPaths_new(transaction) ==
    [transaction |-> transaction, paths |-> <<>>]

TransactionPaths_add_path(tp, to, wallet) ==
    [tp EXCEPT !.paths = Append(@,
        [to |-> to,
         signature |-> Wallet_sign_by_bls(wallet,
             concat_tx_hash_with_to_hash_static(tp.transaction.hash, to))])]

\* The loop of TransactionPaths::verify from hop i on, with from the address
\* of the signer of hop i.
RECURSIVE VerifyHops(_, _, _, _)
VerifyHops(tp, i, from, current_address) ==
    IF i > Len(tp.paths)
    THEN IF Len(tp.paths) = 0 THEN "false"
         ELSE IF tp.paths[Len(tp.paths)].to # current_address THEN "false"
         ELSE "true"
    ELSE LET path == tp.paths[i]
             pk == get_bls_pub_key(from)
         IN  IF pk = None THEN "false"
             ELSE LET r == Wallet_verify_bls_with_pk(
                               concat_tx_hash_with_to_hash_static(
                                   tp.transaction.hash, path.to),
                               path.signature, pk)
                  IN  IF r # "true" THEN r
                      ELSE VerifyHops(tp, i + 1, path.to, current_address)

TransactionPaths_verify(tp, current_address) ==
    LET t == Transaction_verify(tp.transaction)
    IN  IF t # "true" THEN t
        ELSE IF Len(tp.paths) = 0 /\ current_address = tp.transaction.from
             THEN "true"
        ELSE VerifyHops(tp, 1, tp.transaction.from, current_address)

TransactionPaths_verify_last(tp, current_address) ==
    LET t == Transaction_verify(tp.transaction)
        n == Len(tp.paths)
    IN  IF t # "true" THEN t
        ELSE IF n = 0 /\ current_address = tp.transaction.from THEN "true"
        ELSE IF n = 0 THEN "false"
        ELSE LET from == IF n > 1 THEN tp.paths[n - 1].to
                         ELSE tp.transaction.from
                 path == tp.paths[n]
                 pk == get_bls_pub_key(from)
             IN  IF path.to # current_address THEN "false"
                 ELSE IF pk = None THEN "false"
                 ELSE Wallet_verify_bls_with_pk(
                          concat_tx_hash_with_to_hash_static(
                              tp.transaction.hash, path.to),
                          path.signature, pk)

\* from_transaction_paths unwraps the parse of every hop signature.
AggregatedSignedPaths_from_transaction_paths(tp) ==
    IF \E i \in 1..Len(tp.paths) :
           Wallet_bls_signature_from_string(tp.paths[i].signature) # "ok"
    THEN [tag |-> "panic"]
    ELSE [tag |-> "ok",
          asp |-> [signature |-> Wallet_bls_aggregated_sign(
                       [i \in 1..Len(tp.paths) |-> tp.paths[i].signature]),
                   paths |-> <<tp.transaction.from>>
                             \o [i \in 1..Len(tp.paths) |-> tp.paths[i].to]]]

\* The short cut taken when the originator is the miner.
MinerIsOriginator(asp, transaction, miner) ==
    transaction.from = miner /\ asp.paths[1] = miner

AggregatedSignedPaths_verify(asp, transaction, miner) ==
    LET n == Len(asp.paths)
    IN  IF n = 0 THEN "false"
        ELSE IF MinerIsOriginator(asp, transaction, miner) THEN "true"
        ELSE IF asp.paths[n] # miner THEN "false"
        ELSE IF \E i \in 1..n : get_bls_pub_key(asp.paths[i]) = None
             THEN "panic"
        ELSE Wallet_bls_aggregated_verify(
                 [i \in 1..(n - 1) |->
                     concat_tx_hash_with_to_hash_static(transaction.hash,
                                                        asp.paths[i + 1])],
                 [i \in 1..(n - 1) |-> get_bls_pub_key(asp.paths[i])],
                 asp.signature)

(***************************************************************************)
(* Blocks.                                                                 *)
(***************************************************************************)
Body_new(transactions, paths) ==
    [transactions |-> transactions, paths |-> paths]

\* Header::get_hash: the hash of the header with its hash field blanked.
Header_get_hash(index, epoch, slot, merkle_root, miner, parent_hash) ==
    <<index, epoch, slot, parent_hash, merkle_root, miner>>

Header_new(index, epoch, slot, merkle_root, miner, parent_hash) ==
    [index |-> index, epoch |-> epoch, slot |-> slot,
     hash |-> Header_get_hash(index, epoch, slot, merkle_root, miner,
                              parent_hash),
     parent_hash |-> parent_hash, merkle_root |-> merkle_root,
     miner |-> miner]

\* cal_merkle_root recurses on an empty list with an empty list: it never
\* returns.  The operator is defined on the lists for which it returns.
cal_merkle_root_diverges(leaves) == Len(leaves) = 0

RECURSIVE cal_merkle_root(_)
cal_merkle_root(leaves) ==
    IF Len(leaves) = 1 THEN leaves[1]
    ELSE LET padded == IF Len(leaves) % 2 # 0
                       THEN Append(leaves, leaves[Len(leaves)])
                       ELSE leaves
         IN  cal_merkle_root([i \in 1..(Len(padded) \div 2) |->
                                 <<padded[2 * i - 1], padded[2 * i]>>])

\* The loop of Block::new over the body from position i on.
RECURSIVE NewBodyCheck(_, _, _)
NewBodyCheck(body, miner, i) ==
    IF i > Len(body.transactions) THEN "ok"
    ELSE LET t == Transaction_verify(body.transactions[i])
             p == AggregatedSignedPaths_verify(body.paths[i],
                                               body.transactions[i], miner)
         IN  IF t = "panic" THEN "panic"
             ELSE IF t = "false" THEN "InvalidBlockTransactions"
             ELSE IF p = "panic" THEN "panic"
             ELSE IF p = "false" THEN "InvalidBlockPath"
             ELSE NewBodyCheck(body, miner, i + 1)

Block_new(index, epoch, slot, parent_hash, body, wallet) ==
    IF Len(body.transactions) # Len(body.paths)
    THEN [tag |-> "InvalidBlock"]
    ELSE IF NewBodyCheck(body, wallet, 1) # "ok"
    THEN [tag |-> NewBodyCheck(body, wallet, 1)]
    ELSE IF cal_merkle_root_diverges(body.transactions)
    THEN [tag |-> "diverges"]
    ELSE [tag |-> "ok",
          block |-> [header |-> Header_new(index, epoch, slot,
                         cal_merkle_root([i \in 1..Len(body.transactions) |->
                                             body.transactions[i].hash]),
                         wallet, parent_hash),
                     body |-> body]]

\* The loop of Block::verify from position i on; the path check of the
\* body is commented out in the source.
RECURSIVE VerifyBodyCheck(_, _)
VerifyBodyCheck(block, i) ==
    IF i > Len(block.body.transactions) THEN "true"
    ELSE LET t == Transaction_verify(block.body.transactions[i])
         IN  IF t # "true" THEN t
             ELSE VerifyBodyCheck(block, i + 1)

Block_verify(block) ==
    IF Len(block.body.transactions) # Len(block.body.paths) THEN "false"
    ELSE VerifyBodyCheck(block, 1)

gen_genesis_block ==
    LET transaction == Transaction_new(NoKeyAddr, 0, GenesisMiner)
        paths == AggregatedSignedPaths_from_transaction_paths(
                     TransactionPaths_new(transaction)).asp
    IN  Block_new(0, 0, 0, EmptyHash,
                  Body_new(<<transaction>>, <<paths>>), GenesisMiner).block

(***************************************************************************)
(* The blockchain: the blocks and the set of the transaction hashes seen.  *)
(***************************************************************************)
TxHashes(block) ==
    {block.body.transactions[i].hash : i \in 1..Len(block.body.transactions)}

Blockchain_new(genesis_block) ==
    [blocks |-> <<genesis_block>>,
     transactions_hash_set |-> TxHashes(genesis_block)]

get_last_block(bc) == bc.blocks[Len(bc.blocks)]

get_last_hash(bc) == get_last_block(bc).header.hash

get_last_index(bc) == get_last_block(bc).header.index

exist_transaction(bc, hash) == hash \in bc.transactions_hash_set

\* The checks of add_block, in the order of the source.
is_duplicate(bc, block) == get_last_hash(bc) = block.header.hash

\* The append rule without the parent check.
parent_hash_mismatch_unchecked(bc, block) == FALSE

parent_hash_mismatch(bc, block) ==
    get_last_hash(bc) # block.header.parent_hash

index_mismatch(bc, block) ==
    get_last_block(bc).header.index + 1 # block.header.index

epoch_error(bc, block) ==
    get_last_block(bc).header.epoch > block.header.epoch

slot_error(bc, block) ==
    /\ get_last_block(bc).header.epoch = block.header.epoch
    /\ get_last_block(bc).header.slot > block.header.slot

\* The append rule without the look-up in the set of seen hashes.
transaction_exists_unchecked(bc, block) == FALSE

transaction_exists(bc, block) ==
    \E h \in TxHashes(block) : exist_transaction(bc, h)

add_block(bc, block) ==
    LET v == Block_verify(block)
    IN  IF v = "panic" THEN [tag |-> "panic", bc |-> bc]
        ELSE IF v = "false" THEN [tag |-> "InvalidBlock", bc |-> bc]
        ELSE IF is_duplicate(bc, block)
             THEN [tag |-> "DuplicateBlocksReceived", bc |-> bc]
        ELSE IF parent_hash_mismatch(bc, block)
             THEN [tag |-> "ParentHashMismatch", bc |-> bc]
        ELSE IF index_mismatch(bc, block)
             THEN [tag |-> "IndexMismatch", bc |-> bc]
        ELSE IF epoch_error(bc, block)
             THEN [tag |-> "EpochError", bc |-> bc]
        ELSE IF slot_error(bc, block)
             THEN [tag |-> "SlotError", bc |-> bc]
        ELSE IF transaction_exists(bc, block)
             THEN [tag |-> "TransactionExists", bc |-> bc]
        ELSE [tag |-> "Ok",
              bc |-> [blocks |-> Append(bc.blocks, block),
                      transactions_hash_set |->
                          bc.transactions_hash_set \cup TxHashes(block)]]

\* A pop that takes two blocks off the chain.
pop_two_blocks(bc) ==
    [bc EXCEPT !.blocks = SubSeq(@, 1, Len(@) - 2)]

\* node.rs, ResponseBlockSync: blockchain.blocks.pop(); the set of seen
\* hashes is left as it is.
pop_block(bc) ==
    [bc EXCEPT !.blocks = SubSeq(@, 1, Len(@) - 1)]

(***************************************************************************)
(* f64 values.  A value is 0 or mant * 2^exp with mant an integer of 53     *)
(* bits, written most significant bit first and starting with 1.  Only     *)
(* values >= 0 occur.  Sums are rounded to nearest, ties to even.          *)
(***************************************************************************)
F64MantBits == 53

Zeros(n) == [i \in 1..n |-> 0]

F64Zero == [zero |-> TRUE, exp |-> 0, mant |-> Zeros(F64MantBits)]

\* 1.0 = 0x1.0000000000000p+0
F64OneExp == -52
F64One == [zero |-> FALSE, exp |-> F64OneExp,
           mant |-> <<1>> \o Zeros(F64MantBits - 1)]

\* 0.1 = 0x1.999999999999ap-4
F64TenthExp == -56
F64Tenth ==
    [zero |-> FALSE, exp |-> F64TenthExp,
     mant |-> [i \in 1..F64MantBits |->
                  IF i = 1 THEN 1
                  ELSE IF i >= F64MantBits - 3
                  THEN <<1, 0, 1, 0>>[i - (F64MantBits - 4)]
                  ELSE <<1, 0, 0, 1>>[((i - 2) % 4) + 1]]]

\* The carry into bit i of x + y + c, from the bits to the right of it.
CarryInto(x, y, i, c) ==
    IF \/ \E j \in (i + 1)..Len(x) :
              /\ x[j] + y[j] = 2
              /\ \A k \in (i + 1)..(j - 1) : x[k] + y[k] = 1
       \/ (c = 1 /\ \A k \in (i + 1)..Len(x) : x[k] + y[k] = 1)
    THEN 1 ELSE 0

\* x + y + c of two bit strings of one length, one bit longer.
AddBits(x, y, c) ==
    [i \in 1..(Len(x) + 1) |->
        IF i = 1 THEN CarryInto(x, y, 0, c)
        ELSE (x[i - 1] + y[i - 1] + CarryInto(x, y, i - 1, c)) % 2]

RECURSIVE StripZeros(_)
StripZeros(bits) ==
    IF Len(bits) > 0 /\ Head(bits) = 0 THEN StripZeros(Tail(bits)) ELSE bits

\* The f64 nearest to bits * 2^exp, bits starting with 1.
F64Round(bits, exp) ==
    IF Len(bits) <= F64MantBits
    THEN [zero |-> FALSE, exp |-> exp - (F64MantBits - Len(bits)),
          mant |-> bits \o Zeros(F64MantBits - Len(bits))]
    ELSE LET keep == SubSeq(bits, 1, F64MantBits)
             rest == SubSeq(bits, F64MantBits + 1, Len(bits))
             more == \E i \in 2..Len(rest) : rest[i] = 1
             up == rest[1] = 1 /\ (more \/ keep[F64MantBits] = 1)
             next == AddBits(keep, Zeros(F64MantBits), 1)
             e == exp + Len(rest)
         IN  IF ~up THEN [zero |-> FALSE, exp |-> e, mant |-> keep]
             ELSE IF next[1] = 1
             THEN [zero |-> FALSE, exp |-> e + 1,
                   mant |-> SubSeq(next, 1, F64MantBits)]
             ELSE [zero |-> FALSE, exp |-> e, mant |-> Tail(next)]

\* x + y for x, y >= 0.
F64Add(x, y) ==
    IF x.zero THEN y
    ELSE IF y.zero THEN x
    ELSE LET hi == IF x.exp >= y.exp THEN x ELSE y
             lo == IF x.exp >= y.exp THEN y ELSE x
             d == hi.exp - lo.exp
             a == hi.mant \o Zeros(d)
             b == Zeros(d) \o lo.mant
         IN  F64Round(StripZeros(AddBits(a, b, 0)), lo.exp)

\* x < y for x, y >= 0.
F64Less(x, y) ==
    IF y.zero THEN FALSE
    ELSE IF x.zero THEN TRUE
    ELSE IF x.exp # y.exp THEN x.exp < y.exp
    ELSE \E i \in 1..F64MantBits :
             /\ x.mant[i] < y.mant[i]
             /\ \A j \in 1..(i - 1) : x.mant[j] = y.mant[j]

F64Max(x, y) == IF F64Less(x, y) THEN y ELSE x

F64Min(x, y) == IF F64Less(y, x) THEN y ELSE x

(***************************************************************************)
(* The PoG engine: NTD, omega and the score history.                       *)
(***************************************************************************)
\* WorldState::new builds the engine with PogConsensus::new(0).
InitialNtd == 0

PogConsensus_new(initial_ntd) ==
    [ntd |-> initial_ntd, omega |-> F64Zero, score_history |-> <<>>,
     score_scale |-> 1]

set_omega(c, omega) ==
    [c EXCEPT !.omega = F64Min(F64Max(omega, F64Zero), F64One)]

get_all_paths(block) ==
    [i \in 1..Len(block.body.paths) |-> block.body.paths[i].paths]

\* blocks.iter().flat_map(|b| b.get_all_paths())
RECURSIVE AllPaths(_)
AllPaths(blocks) ==
    IF Len(blocks) = 0 THEN <<>>
    ELSE get_all_paths(Head(blocks)) \o AllPaths(Tail(blocks))

\* The sum of path.len().saturating_sub(1) over the paths.
RECURSIVE SumNonMiner(_)
SumNonMiner(paths) ==
    IF Len(paths) = 0 THEN 0
    ELSE (IF Len(Head(paths)) = 0 THEN 0 ELSE Len(Head(paths)) - 1)
         + SumNonMiner(Tail(paths))

\* (sum / n).ceil() for n > 0.
CeilDiv(sum, n) == (sum + n - 1) \div n

\* The rule without the single step: NTD jumps to the target.
adjust_ntd_jump(c, paths) ==
    IF Len(paths) = 0 THEN c
    ELSE [c EXCEPT !.ntd = CeilDiv(SumNonMiner(paths), Len(paths))]

adjust_ntd(c, paths) ==
    IF Len(paths) = 0 THEN c
    ELSE LET target == CeilDiv(SumNonMiner(paths), Len(paths))
         IN  IF c.ntd > target THEN [c EXCEPT !.ntd = @ - 1]
             ELSE IF c.ntd < target THEN [c EXCEPT !.ntd = @ + 1]
             ELSE c

on_epoch_end(c, blocks) ==
    LET adjusted == adjust_ntd(c, AllPaths(blocks))
    IN  set_omega(adjusted, F64Add(adjusted.omega, F64Tenth))

(***************************************************************************)
(* Proposer election.  A validator is [address, stake] with an integer     *)
(* stake.  A score, a share and a virtual stake are rationals: a map of    *)
(* numerators num over one denominator den.  The 32-byte seed is modelled  *)
(* by the draw of the generator seeded with it: seed s of 0..Seeds-1 makes *)
(* gen_range(0.0..total) return total * s / Seeds.                         *)
(***************************************************************************)
Validator_new(address, stake) == [address |-> address, stake |-> stake]

Elected(validator) == [tag |-> "ok", validator |-> validator]

NOValidatorError == [tag |-> "err", error |-> "NOValidatorError"]

\* gen_range panics on an empty range ("cannot sample empty range").
EmptyRangePanic == [tag |-> "panic", at |-> "gen_range"]

RECURSIVE SumSeq(_)
SumSeq(xs) == IF Len(xs) = 0 THEN 0 ELSE Head(xs) + SumSeq(Tail(xs))

RECURSIVE SumMap(_)
SumMap(map) ==
    IF DOMAIN map = {} THEN 0
    ELSE LET k == CHOOSE x \in DOMAIN map : TRUE
         IN  map[k] + SumMap([x \in DOMAIN map \ {k} |-> map[x]])

\* map.get(key).unwrap_or(&0.0)
GetOr0(map, key) == IF key \in DOMAIN map THEN map[key] ELSE 0

\* The draw and the loop over the validators with the given weights: the first
\* validator whose accumulated weight exceeds the random value.
WeightedPick(validators, weights, seed) ==
    LET total == SumSeq(weights)
        hits == {i \in 1..Len(validators) :
                    SumSeq(SubSeq(weights, 1, i)) * Seeds > total * seed}
    IN  IF total <= 0 THEN EmptyRangePanic
        ELSE IF hits = {} THEN NOValidatorError
        ELSE Elected(validators[CHOOSE i \in hits : \A j \in hits : i <= j])

\* The selection with `>=` for `>` in the loop.
PosConsensus_select_reaching(validators, combines_seeds) ==
    LET weights == [i \in 1..Len(validators) |-> validators[i].stake]
        total == SumSeq(weights)
        hits == {i \in 1..Len(validators) :
                    SumSeq(SubSeq(weights, 1, i)) * Seeds >= total * combines_seeds}
    IN  IF Len(validators) = 0 THEN NOValidatorError
        ELSE IF total <= 0 THEN EmptyRangePanic
        ELSE IF hits = {} THEN NOValidatorError
        ELSE Elected(validators[CHOOSE i \in hits : \A j \in hits : i <= j])

PosConsensus_select(validators, combines_seeds) ==
    IF Len(validators) = 0 THEN NOValidatorError
    ELSE WeightedPick(validators,
                      [i \in 1..Len(validators) |-> validators[i].stake],
                      combines_seeds)

\* q / 4 in f64, for q in 0..4.
F64Quarters(q) ==
    IF q = 0 THEN F64Zero
    ELSE IF q = 4 THEN F64One
    ELSE [zero |-> FALSE,
          exp |-> IF q = 1 THEN F64OneExp - 2 ELSE F64OneExp - 1,
          mant |-> [i \in 1..F64MantBits |->
                       IF i = 1 \/ (q = 3 /\ i = 2) THEN 1 ELSE 0]]

\* The q with omega = q / 4.
OmegaQuarters(omega) == CHOOSE q \in 0..4 : F64Quarters(q) = omega

\* sum == 0.0 returns the map as it is.
normalize_map(map) ==
    LET sum == SumMap(map)
    IN  IF sum = 0 THEN [num |-> map, den |-> 1]
        ELSE [num |-> map, den |-> sum]

\* The paths that add to raw_scores: non-empty, with a node before the miner,
\* and with stake among these nodes.
ScoringPaths(paths, validators) ==
    {i \in 1..Len(paths) :
        /\ Len(paths[i]) >= 2
        /\ \E k \in 1..(Len(paths[i]) - 1) : \E j \in 1..Len(validators) :
              validators[j].address = paths[i][k] /\ validators[j].stake # 0}

\* Without a scoring path raw_scores stays empty, and so does the result.
\* Scoring paths of one node before the miner, no two of one node, give
\* this node the raw score c_p of such a path (alpha_1 = 1, s_hat = 1) and
\* the contribution k_sat * ln(1 + c_p / k_base), which is the unit the
\* contributions and the score history are counted in.
cal_slot_contribution(c, paths, validators) ==
    LET scoring == ScoringPaths(paths, validators)
    IN  CASE scoring = {} -> <<>>
          [] /\ scoring # {}
             /\ \A i \in scoring : Len(paths[i]) = 2
             /\ \A i, j \in scoring : paths[i][1] = paths[j][1] => i = j
             -> [n \in {paths[i][1] : i \in scoring} |-> 1]

\* Score = alpha * slot + (1 - alpha) * previous with alpha = 4/5, for the
\* validators.  The history is kept as integers: times score_scale, which
\* grows by the factor 5 per update; normalize_map and its test for a sum of
\* 0 do not see the factor.
update_score_history(c, slot_contribution, validators) ==
    LET addresses == {validators[i].address : i \in 1..Len(validators)}
    IN  [c EXCEPT !.score_history =
            [n \in DOMAIN @ \cup addresses |->
                IF n \in addresses
                THEN 4 * c.score_scale * GetOr0(slot_contribution, n)
                     + GetOr0(@, n)
                ELSE 5 * @[n]],
                  !.score_scale = 5 * @]

\* S_v = omega * hat_C + (1 - omega) * hat_S, for the keys of real_stake_map.
cal_virtual_stake(c, real_stake_map, normalized_stake, normalized_contribution) ==
    LET q == OmegaQuarters(c.omega)
    IN  [num |-> [n \in DOMAIN real_stake_map |->
                     q * GetOr0(normalized_contribution.num, n)
                       * normalized_stake.den
                     + (4 - q) * GetOr0(normalized_stake.num, n)
                       * normalized_contribution.den],
         den |-> 4 * normalized_contribution.den * normalized_stake.den]

\* The engine after the call, the virtual stakes and the outcome.
select_internal(c, validators, combines_seeds, blockchain) ==
    LET paths == get_all_paths(get_last_block(blockchain))
        updated == update_score_history(
                       c, cal_slot_contribution(c, paths, validators), validators)
        s_real_map == [n \in {validators[i].address : i \in 1..Len(validators)}
                          |-> (CHOOSE v \in {validators[i] :
                                                i \in 1..Len(validators)} :
                                   v.address = n).stake]
        s_virtual_map == cal_virtual_stake(updated, s_real_map,
                                           normalize_map(s_real_map),
                                           normalize_map(updated.score_history))
    IN  [consensus |-> updated,
         s_virtual_map |-> s_virtual_map,
         result |-> WeightedPick(
                        validators,
                        [i \in 1..Len(validators) |->
                            GetOr0(s_virtual_map.num, validators[i].address)],
                        combines_seeds)]

(***************************************************************************)
(* State.                                                                  *)
(*   bc, call: a Blockchain driven through its public operations           *)
(*   (specification SpecChain).  call records the operation in progress:   *)
(*   its argument, its result and the chain before it.                     *)
(***************************************************************************)
VARIABLES bc, call, input, nodes, net, wsq, ws, world_in, tg, aborted

chainVars == <<bc, call>>

\* The arguments a verification or path operation is applied to.
pureVars == <<input>>

\* The network: the nodes, the messages in flight between them, the queue
\* of WorldState messages of every node, WorldState, its mailbox, the
\* transaction generator, and whether the process has aborted.
netVars == <<nodes, net, wsq, ws, world_in, tg, aborted>>

vars == <<bc, call, input, nodes, net, wsq, ws, world_in, tg, aborted>>

NoInput == [kind |-> "none"]

NoCall == [op |-> "none", result |-> "none"]

ChainIdle ==
    /\ bc = Blockchain_new(gen_genesis_block)
    /\ call = NoCall

\* The nodes are the wallets; node 2 is the unstable one.
Nodes == Wallets

NodeTypeOf(n) == IF n = 2 THEN "Unstable" ELSE "Honest"

\* network/mod.rs start_network: the edges of the graph, taken in both
\* directions.  The graph is complete unless the input gives one.
Neighbors(n) ==
    IF input.kind = "gossip" THEN input.neighbors[n] ELSE Nodes \ {n}

Node_new(epoch, slot, blockchain, node_type) ==
    [epoch |-> epoch, slot |-> slot, blockchain |-> blockchain,
     transaction_paths_cache |-> <<>>, node_type |-> node_type,
     is_online |-> TRUE, offline_until_epoch |-> {},
     sync_in_progress |-> FALSE, running |-> TRUE,
     transaction_fee |-> 0, balance |-> 0]

WorldState_new(blockchain) ==
    [current_epoch |-> 0, current_slot |-> 0, ticks |-> 0,
     validators |-> Nodes, blockchain |-> blockchain, receiving |-> TRUE,
     consensus |-> PogConsensus_new(InitialNtd),
     randao_seeds |-> <<>>, next_seed |-> 0, timer |-> TRUE]

\* start_network: one genesis block for WorldState and every node, every
\* node a validator, nothing sent yet.
NetInitWith(world) ==
    /\ nodes = [n \in Nodes |->
                   Node_new(0, 0, Blockchain_new(gen_genesis_block),
                            NodeTypeOf(n))]
    /\ net = EmptyBag
    /\ wsq = [n \in Nodes |-> <<>>]
    /\ ws = world
    /\ world_in = EmptyBag
    /\ tg = [requested |-> 0, created |-> 0, clock |-> 0]
    /\ aborted = FALSE

NetInit == NetInitWith(WorldState_new(Blockchain_new(gen_genesis_block)))

(***************************************************************************)
(* The blocks offered to add_block.  A block comes out of Block::new, for  *)
(* a body a miner assembled from the paths gossiped to some node, or out   *)
(* of Block::from_json, which accepts any field values; a block that was   *)
(* appended once may be delivered again.                                   *)
(***************************************************************************)
TxPool == {Transaction_new(NoKeyAddr, 0, w) : w \in Wallets}

TxOf(w) == Transaction_new(NoKeyAddr, 0, w)

\* The paths of transaction tx as they reach node dest from the originator.
GossipPaths(tx, dest) ==
    IF tx.from = dest THEN TransactionPaths_new(tx)
    ELSE TransactionPaths_add_path(TransactionPaths_new(tx), dest, tx.from)

Sealed(tx, dest) ==
    AggregatedSignedPaths_from_transaction_paths(GossipPaths(tx, dest)).asp

BodyPool ==
    {Body_new(<<TxOf(w)>>, <<Sealed(TxOf(w), d)>>) : w \in Wallets, d \in Wallets}
    \cup {Body_new(<<TxOf(1), TxOf(2)>>,
                   <<Sealed(TxOf(1), d), Sealed(TxOf(2), d)>>) : d \in Wallets}

\* The (epoch, slot) the clock shows after t ticks.
ClockEpoch(t) == t \div SlotsPerEpoch

ClockSlot(t) == t % SlotsPerEpoch

NewResults(chain, indexes, parents) ==
    {Block_new(i, ClockEpoch(t), ClockSlot(t), p, body, w) :
        i \in indexes, t \in 0..MaxTicks, p \in parents,
        body \in BodyPool, w \in Wallets}

NewBlocks(chain) ==
    {r.block : r \in {x \in NewResults(chain,
                          {get_last_index(chain), get_last_index(chain) + 1},
                          {get_last_hash(chain),
                           get_last_block(chain).header.parent_hash}) :
                      x.tag = "ok"}}

NextBlocks(chain) ==
    {r.block : r \in {x \in NewResults(chain, {get_last_index(chain) + 1},
                                       {get_last_hash(chain)}) :
                      x.tag = "ok"}}

ForgedPathSig == Wallet_sign_by_bls(GenesisMiner, EmptyHash)

ForgedTxSig(t) == Wallet_sign(GenesisMiner, t.hash)

ShortTxSig(t) == [Wallet_sign(t.from, t.hash) EXCEPT !.len = 0]

JsonBlocks(chain) ==
    {[b EXCEPT !.body.paths[1].signature = ForgedPathSig] : b \in NextBlocks(chain)}
    \cup {[b EXCEPT !.body.transactions[1].signature =
                        ForgedTxSig(b.body.transactions[1])] :
             b \in NextBlocks(chain)}
    \cup {[b EXCEPT !.body.transactions[1].signature =
                        ShortTxSig(b.body.transactions[1])] :
             b \in NextBlocks(chain)}

BlocksOf(chain) == {chain.blocks[i] : i \in 1..Len(chain.blocks)}

Candidates(chain) ==
    NewBlocks(chain) \cup JsonBlocks(chain) \cup BlocksOf(chain)

\* A panic ends the process.
ChainAlive == call.result # "panic"

\* Blockchain::add_block, called with a block received or assembled.
ChainAddBlock ==
    /\ call = NoCall
    /\ \E b \in Candidates(bc) :
          LET r == add_block(bc, b)
          IN  /\ Len(r.bc.blocks) <= MaxChainLen
              /\ bc' = r.bc
              /\ call' = [op |-> "add_block", block |-> b, result |-> r.tag,
                          pre |-> bc]
    /\ UNCHANGED input
    /\ UNCHANGED netVars

\* The rewind of block-sync: the tip is removed unless it is the only block.
ChainPopBlock ==
    /\ call = NoCall
    /\ Len(bc.blocks) # 1
    /\ bc' = pop_block(bc)
    /\ call' = [op |-> "pop", block |-> get_last_block(bc), result |-> "Ok",
                pre |-> bc]
    /\ UNCHANGED input
    /\ UNCHANGED netVars

\* The caller has dealt with the result; after a panic there is no caller.
ChainReturn ==
    /\ call # NoCall
    /\ ChainAlive
    /\ call' = NoCall
    /\ UNCHANGED <<bc, input>>
    /\ UNCHANGED netVars

ChainNext == ChainAddBlock \/ ChainPopBlock \/ ChainReturn

InitChain == ChainIdle /\ input = NoInput /\ NetInit

SpecChain == InitChain /\ [][ChainNext]_vars

(***************************************************************************)
(* The verification operations applied to untrusted arguments              *)
(* (SpecVerify).  Paths and transactions reach a node as JSON, so every    *)
(* string in them is whatever the sender wrote.  An input is the paths of  *)
(* a transaction along a route of wallets, with at most one field          *)
(* replaced, and the address the receiver verifies against.                *)
(***************************************************************************)
RECURSIVE AddHops(_, _, _)
AddHops(tp, route, i) ==
    IF i >= Len(route) THEN tp
    ELSE AddHops(TransactionPaths_add_path(tp, route[i + 1], route[i]),
                 route, i + 1)

\* The paths built by add_path along route, from its first wallet on.
BuildPaths(route) == AddHops(TransactionPaths_new(TxOf(route[1])), route, 1)

Routes ==
    UNION {[1..n -> Wallets] : n \in 1..(MaxHops + 1)}

EcdsaTampers(sig) ==
    {[sig EXCEPT !.len = 0],
     [sig EXCEPT !.len = SigBodyLen],
     [sig EXCEPT !.hex = FALSE],
     [sig EXCEPT !.vhex = FALSE],
     [sig EXCEPT !.v = VBase - 1],
     [sig EXCEPT !.v = VBase + MaxRecoveryId + 1],
     [sig EXCEPT !.curve = FALSE],
     [sig EXCEPT !.signer = GenesisMiner]}

BlsTampers ==
    {[kind |-> "nonhex", pairs |-> EmptyBag],
     [kind |-> "badbytes", pairs |-> EmptyBag],
     [kind |-> "empty", pairs |-> EmptyBag],
     ForgedPathSig}

Honest(route) ==
    [tp |-> BuildPaths(route),
     asp |-> AggregatedSignedPaths_from_transaction_paths(BuildPaths(route)).asp]

Tampered(h) ==
    {[h EXCEPT !.tp.transaction.signature = sig] :
        sig \in EcdsaTampers(h.tp.transaction.signature)}
    \cup {[h EXCEPT !.tp.paths[Len(h.tp.paths)].signature = sig] :
             sig \in IF Len(h.tp.paths) > 0 THEN BlsTampers ELSE {}}
    \cup {[h EXCEPT !.asp.signature = sig] : sig \in BlsTampers}
    \cup {[h EXCEPT !.tp.paths[i].to = NoKeyAddr,
                    !.asp.paths[i + 1] = NoKeyAddr] : i \in 1..Len(h.tp.paths)}

VerifyInputs ==
    {[tp |-> x.tp, asp |-> x.asp, address |-> a] :
        x \in UNION {{Honest(route)} \cup Tampered(Honest(route)) :
                        route \in Routes},
        a \in Addresses}

InitVerify ==
    /\ ChainIdle
    /\ NetInit
    /\ input \in VerifyInputs

LastHop(tp) == tp.paths[Len(tp.paths)]

HopMessages(asp, transaction) ==
    [i \in 1..(Len(asp.paths) - 1) |->
        concat_tx_hash_with_to_hash_static(transaction.hash, asp.paths[i + 1])]

Returned(op, result) == [op |-> op, result |-> result]

VerifyByAddress ==
    /\ call = NoCall
    /\ call' = Returned("verify_by_address",
                        Wallet_verify_by_address(input.tp.transaction.hash,
                                                 input.tp.transaction.signature,
                                                 input.address))
    /\ UNCHANGED <<bc, input>>
    /\ UNCHANGED netVars

VerifyBlsWithPk ==
    /\ call = NoCall
    /\ Len(input.tp.paths) > 0
    /\ get_bls_pub_key(input.address) # None
    /\ call' = Returned("verify_bls_with_pk",
                        Wallet_verify_bls_with_pk(
                            concat_tx_hash_with_to_hash_static(
                                input.tp.transaction.hash, LastHop(input.tp).to),
                            LastHop(input.tp).signature,
                            get_bls_pub_key(input.address)))
    /\ UNCHANGED <<bc, input>>
    /\ UNCHANGED netVars

VerifyBlsAggregated ==
    /\ call = NoCall
    /\ \A i \in 1..Len(input.asp.paths) :
          get_bls_pub_key(input.asp.paths[i]) # None
    /\ call' = Returned("bls_aggregated_verify",
                        Wallet_bls_aggregated_verify(
                            HopMessages(input.asp, input.tp.transaction),
                            [i \in 1..(Len(input.asp.paths) - 1) |->
                                get_bls_pub_key(input.asp.paths[i])],
                            input.asp.signature))
    /\ UNCHANGED <<bc, input>>
    /\ UNCHANGED netVars

VerifyPaths ==
    /\ call = NoCall
    /\ call' = Returned("TransactionPaths::verify",
                        TransactionPaths_verify(input.tp, input.address))
    /\ UNCHANGED <<bc, input>>
    /\ UNCHANGED netVars

VerifyLast ==
    /\ call = NoCall
    /\ call' = Returned("TransactionPaths::verify_last",
                        TransactionPaths_verify_last(input.tp, input.address))
    /\ UNCHANGED <<bc, input>>
    /\ UNCHANGED netVars

VerifyAggregated ==
    /\ call = NoCall
    /\ call' = Returned("AggregatedSignedPaths::verify",
                        AggregatedSignedPaths_verify(input.asp,
                                                     input.tp.transaction,
                                                     input.address))
    /\ UNCHANGED <<bc, input>>
    /\ UNCHANGED netVars

\* The caller goes on with the boolean; a panic unwinds it.
VerifyReturn ==
    /\ call # NoCall
    /\ call.result # "panic"
    /\ call' = NoCall
    /\ UNCHANGED <<bc, input>>
    /\ UNCHANGED netVars

VerifyNext ==
    \/ VerifyByAddress
    \/ VerifyBlsWithPk
    \/ VerifyBlsAggregated
    \/ VerifyPaths
    \/ VerifyLast
    \/ VerifyAggregated
    \/ VerifyReturn

SpecVerify == InitVerify /\ [][VerifyNext]_vars

(***************************************************************************)
(* Signing a path hop by hop, verifying it, replacing one field of one     *)
(* hop and verifying again (SpecPath), as tests::test_transaction_paths_bls *)
(* does for one route.  The last wallet of the route is the miner.         *)
(***************************************************************************)
InitPath ==
    /\ ChainIdle
    /\ NetInit
    /\ input \in {[route |-> r, tp |-> TransactionPaths_new(TxOf(r[1])),
                   i |-> 1, stage |-> "build"] : r \in Routes}

Miner(route) == route[Len(route)]

\* TransactionPaths::verify and, for the paths sealed by
\* from_transaction_paths, AggregatedSignedPaths::verify.
BothVerify(op, tp, miner) ==
    LET sealed == AggregatedSignedPaths_from_transaction_paths(tp)
    IN  [op |-> op,
         result |-> TransactionPaths_verify(tp, miner),
         sealed |-> IF sealed.tag = "panic" THEN "panic"
                    ELSE AggregatedSignedPaths_verify(sealed.asp,
                                                      tp.transaction, miner)]

PathAddPath ==
    /\ input.stage = "build"
    /\ input.i < Len(input.route)
    /\ input' = [input EXCEPT
                    !.tp = TransactionPaths_add_path(@, input.route[input.i + 1],
                                                     input.route[input.i]),
                    !.i = @ + 1]
    /\ UNCHANGED <<bc, call>>
    /\ UNCHANGED netVars

PathVerify ==
    /\ input.stage = "build"
    /\ input.i = Len(input.route)
    /\ call' = BothVerify("verify", input.tp, Miner(input.route))
    /\ input' = [input EXCEPT !.stage = "built"]
    /\ UNCHANGED bc
    /\ UNCHANGED netVars

\* The signatures a hop signature can be replaced by.
HopSignatures(tp) ==
    {Wallet_sign_by_bls(w, concat_tx_hash_with_to_hash_static(
                               tp.transaction.hash, a)) :
        w \in Wallets, a \in Wallets}

PathReplaceAddress ==
    /\ input.stage = "built"
    /\ \E k \in 1..Len(input.tp.paths) :
          \E a \in Wallets \ {input.tp.paths[k].to} :
             input' = [input EXCEPT !.tp.paths[k].to = a, !.stage = "replaced"]
    /\ call' = NoCall
    /\ UNCHANGED bc
    /\ UNCHANGED netVars

PathReplaceSignature ==
    /\ input.stage = "built"
    /\ \E k \in 1..Len(input.tp.paths) :
          \E sig \in HopSignatures(input.tp) \ {input.tp.paths[k].signature} :
             input' = [input EXCEPT !.tp.paths[k].signature = sig,
                                    !.stage = "replaced"]
    /\ call' = NoCall
    /\ UNCHANGED bc
    /\ UNCHANGED netVars

PathVerifyReplaced ==
    /\ input.stage = "replaced"
    /\ call' = BothVerify("verify_replaced", input.tp, Miner(input.route))
    /\ input' = [input EXCEPT !.stage = "done"]
    /\ UNCHANGED bc
    /\ UNCHANGED netVars

PathNext ==
    \/ PathAddPath
    \/ PathVerify
    \/ PathReplaceAddress
    \/ PathReplaceSignature
    \/ PathVerifyReplaced

SpecPath == InitPath /\ [][PathNext]_vars

(***************************************************************************)
(* The PoG engine driven through on_epoch_end (SpecPog).  The engine is    *)
(* the one of a WorldState, built with any initial NTD.  input records the *)
(* run: the initial NTD, the calls made, the sum and the number of the     *)
(* non-miner path lengths of the first epoch, and whether every epoch so   *)
(* far had a path and the mean of the first.                               *)
(***************************************************************************)
PogRun(ntd0) ==
    [kind |-> "pog", ntd0 |-> ntd0, k |-> 0, sum |-> 0, count |-> 0,
     steady |-> TRUE]

InitPog ==
    /\ ChainIdle
    /\ \E ntd0 \in 0..MaxNtd :
           /\ input = PogRun(ntd0)
           /\ NetInitWith([WorldState_new(Blockchain_new(gen_genesis_block))
                              EXCEPT !.consensus = PogConsensus_new(ntd0)])

\* A path of the given number of addresses, the miner last.
PathOfLen(len) == [i \in 1..len |-> IF i = len THEN 2 ELSE 1]

\* The lengths of the paths of an epoch.
EpochPathLens ==
    UNION {[1..n -> 0..MaxPathLen] : n \in 0..MaxPaths}

\* A block of the closed epoch, with the paths of the given lengths.
BlockWithPaths(lens) ==
    [body |-> [transactions |-> <<>>,
               paths |-> [i \in 1..Len(lens) |->
                             [paths |-> PathOfLen(lens[i]),
                              signature |-> Wallet_bls_aggregated_sign(<<>>)]]]]

\* The blocks of an epoch: the first path in one block, the others in the
\* next.
EpochBlocks(lens) ==
    IF Len(lens) = 0 THEN <<BlockWithPaths(<<>>)>>
    ELSE <<BlockWithPaths(<<Head(lens)>>), BlockWithPaths(Tail(lens))>>

\* The record of the run after an epoch with the given paths.
PogRunAfter(run, paths) ==
    LET sum == SumNonMiner(paths)
        count == Len(paths)
        same == /\ count > 0
                /\ (run.k = 0 \/ sum * run.count = run.sum * count)
    IN  IF run.steady /\ same
        THEN [run EXCEPT !.k = @ + 1,
                         !.sum = IF run.k = 0 THEN sum ELSE @,
                         !.count = IF run.k = 0 THEN count ELSE @]
        ELSE [run EXCEPT !.k = @ + 1, !.sum = 0, !.count = 0,
                         !.steady = FALSE]

PogOnEpochEnd ==
    /\ input.k < MaxEpochs
    /\ \E lens \in EpochPathLens :
           /\ ws' = [ws EXCEPT !.consensus = on_epoch_end(@, EpochBlocks(lens))]
           /\ input' = PogRunAfter(input, AllPaths(EpochBlocks(lens)))
    /\ UNCHANGED <<bc, call, nodes, net, wsq, world_in, tg, aborted>>

PogNext == PogOnEpochEnd

SpecPog == InitPog /\ [][PogNext]_vars

(***************************************************************************)
(* Proposer election (SpecSelect): select_proposer of an engine is called  *)
(* twice with one validator snapshot and one seed, on the chain of the     *)
(* genesis block.  input records the snapshot, the seed, and what the      *)
(* calls returned; the engine is the one of a WorldState.                  *)
(***************************************************************************)
PosConsensus_new == [name |-> "POS"]

PowConsensus_new(initial_difficulty) ==
    [name |-> "pow", difficulty |-> initial_difficulty]

\* Snapshots: validators of distinct addresses.
Snapshots ==
    {vs \in UNION {[1..n -> {Validator_new(a, st) :
                                a \in Nodes, st \in 0..MaxStake}] :
                      n \in 0..MaxValidators} :
        \A i, j \in 1..Len(vs) : vs[i].address = vs[j].address => i = j}

\* Score histories: the scores of addresses that were validators.
ScoreHistories == UNION {[keys -> 0..MaxScore] : keys \in SUBSET Nodes}

\* The engines: PoS, PoW, and PoG with an omega and a score history.
Engines ==
    {PosConsensus_new}
    \cup {PowConsensus_new(d) : d \in 0..MaxDifficulty}
    \cup {[set_omega(PogConsensus_new(InitialNtd), F64Quarters(q))
              EXCEPT !.score_history = h] :
             q \in 0..4, h \in ScoreHistories}

InitSelect ==
    /\ ChainIdle
    /\ \E engine \in Engines :
           NetInitWith([WorldState_new(Blockchain_new(gen_genesis_block))
                           EXCEPT !.consensus = engine])
    /\ \E vs \in Snapshots, seed \in 0..(Seeds - 1) :
           input = [kind |-> "select", validators |-> vs, seed |-> seed,
                    results |-> <<>>]

IsPog(c) == "score_history" \in DOMAIN c

IsPos(c) == c = PosConsensus_new

IsPow(c) == "difficulty" \in DOMAIN c

CanSelect == input.kind = "select" /\ Len(input.results) < 2

\* A call that returned, or panicked, with the virtual stakes it computed.
Selected(result, s_virtual_map) ==
    [result |-> result, s_virtual_map |-> s_virtual_map]

NoVirtualStake == [num |-> <<>>, den |-> 1]

PosSelectProposer ==
    /\ CanSelect /\ IsPos(ws.consensus)
    /\ input' = [input EXCEPT !.results =
                    Append(@, Selected(PosConsensus_select(input.validators,
                                                           input.seed),
                                       NoVirtualStake))]
    /\ UNCHANGED <<bc, call, nodes, net, wsq, ws, world_in, tg, aborted>>

PogSelectProposer ==
    /\ CanSelect /\ IsPog(ws.consensus)
    /\ LET sel == select_internal(ws.consensus, input.validators, input.seed,
                                  ws.blockchain)
       IN  /\ ws' = [ws EXCEPT !.consensus = sel.consensus]
           /\ input' = [input EXCEPT !.results =
                           Append(@, Selected(sel.result, sel.s_virtual_map))]
    /\ UNCHANGED <<bc, call, nodes, net, wsq, world_in, tg, aborted>>

\* PoW: one mining thread per validator; the first thread that finds a nonce
\* and takes the lock wins.  When none does before the timeout, thread_rng
\* picks a validator and the difficulty goes down by one.
PowSelectProposer ==
    /\ CanSelect /\ IsPow(ws.consensus)
    /\ \/ /\ Len(input.validators) = 0
          /\ input' = [input EXCEPT !.results =
                          Append(@, Selected(NOValidatorError, NoVirtualStake))]
          /\ ws' = ws
       \/ /\ Len(input.validators) = 1
          /\ input' = [input EXCEPT !.results =
                          Append(@, Selected(Elected(input.validators[1]),
                                             NoVirtualStake))]
          /\ ws' = ws
       \/ /\ Len(input.validators) > 1
          /\ \E i \in 1..Len(input.validators), timeout \in BOOLEAN :
                /\ input' = [input EXCEPT !.results =
                                Append(@, Selected(Elected(input.validators[i]),
                                                   NoVirtualStake))]
                /\ ws' = IF timeout
                         THEN [ws EXCEPT !.consensus.difficulty =
                                  IF @ = 0 THEN 0 ELSE @ - 1]
                         ELSE ws
    /\ UNCHANGED <<bc, call, nodes, net, wsq, world_in, tg, aborted>>

SelectNext ==
    \/ PosSelectProposer
    \/ PogSelectProposer
    \/ PowSelectProposer

SpecSelect == InitSelect /\ [][SelectNext]_vars

(***************************************************************************)
(* The network (Spec): WorldState, the transaction generator and the       *)
(* nodes, each node a loop over the messages of its channel.  The sends    *)
(* of a node are spawned tasks, so the messages between nodes arrive in    *)
(* any order (net is a bag); WorldState awaits each of its sends, so the   *)
(* messages it sends to one node arrive in the order sent (wsq).  The      *)
(* configuration has no selfish and no malicious node and a transaction    *)
(* fee of 0; the proposer WorldState selects is any validator.             *)
(***************************************************************************)
NoSender == NoKeyAddr

SendBlockMsg(to, block, from) ==
    [type |-> "SendBlock", to |-> to, from |-> from, block |-> block]

TransactionPathsMsg(to, tp, from) ==
    [type |-> "SendTransactionPaths", to |-> to, from |-> from, tp |-> tp]

RequestBlockSyncMsg(to, index, from) ==
    [type |-> "RequestBlockSync", to |-> to, from |-> from, index |-> index]

ResponseBlockSyncMsg(to, blocks, from) ==
    [type |-> "ResponseBlockSync", to |-> to, from |-> from, blocks |-> blocks]

GenerateTransactionPathsMsg(to, dest) ==
    [type |-> "GenerateTransactionPaths", to |-> to, from |-> NoSender,
     dest |-> dest]

UpdateSlotMsg(epoch, slot) ==
    [type |-> "UpdateSlot", current_epoch |-> epoch, current_slot |-> slot]

GenerateBlockMsg == [type |-> "GenerateBlock"]

BlockProductionFailedMsg(from, slot) ==
    [type |-> "BlockProductionFailed", from |-> from, slot |-> slot]

UpdateValidatorStakeMsg(address, new_stake) ==
    [type |-> "UpdateValidatorStake", from |-> address, stake |-> new_stake]

\* What a handler leaves behind: the node, the messages sent to nodes and
\* to WorldState, and whether the process overflowed its stack.
Handled(node, out, world, abort) ==
    [node |-> node, out |-> out, world |-> world, abort |-> abort]

Skipped(nd) == Handled(nd, {}, {}, FALSE)

\* The cache without the transactions whose hash is in hashes.
CacheWithout(cache, hashes) ==
    LET keep(x) == x.transaction.hash \notin hashes
    IN  SelectSeq(cache, keep)

\* SendBlock that sends an accepted block back to its sender too.
HandleSendBlock_echo(nd, n, msg) ==
    LET r == add_block(nd.blockchain, msg.block)
    IN  IF r.tag = "panic"
        THEN Handled([nd EXCEPT !.running = FALSE], {}, {}, FALSE)
        ELSE IF r.tag = "ParentHashMismatch"
        THEN Handled([nd EXCEPT !.sync_in_progress = TRUE],
                     {RequestBlockSyncMsg(k, get_last_index(nd.blockchain), n) :
                         k \in Neighbors(n)},
                     {}, FALSE)
        ELSE IF r.tag # "Ok" THEN Skipped(nd)
        ELSE Handled([nd EXCEPT
                          !.blockchain = r.bc,
                          !.transaction_paths_cache =
                              CacheWithout(@, TxHashes(msg.block))],
                     {SendBlockMsg(k, msg.block, n) : k \in Neighbors(n)},
                     {}, FALSE)

\* Node::run, SendBlock.
HandleSendBlock(nd, n, msg) ==
    LET r == add_block(nd.blockchain, msg.block)
    IN  IF r.tag = "panic"
        THEN Handled([nd EXCEPT !.running = FALSE], {}, {}, FALSE)
        ELSE IF r.tag = "ParentHashMismatch"
        THEN IF Neighbors(n) # {}
             THEN Handled([nd EXCEPT !.sync_in_progress = TRUE],
                          {RequestBlockSyncMsg(k, get_last_index(nd.blockchain), n) :
                              k \in Neighbors(n)},
                          {}, FALSE)
             ELSE Skipped(nd)
        ELSE IF r.tag # "Ok" THEN Skipped(nd)
        ELSE Handled([nd EXCEPT
                          !.blockchain = r.bc,
                          !.transaction_paths_cache =
                              CacheWithout(@, TxHashes(msg.block))],
                     {SendBlockMsg(k, msg.block, n) :
                         k \in Neighbors(n) \ {msg.from}},
                     {}, FALSE)

\* SendTransactionPaths that takes and relays a path whatever the cache
\* holds.
HandleSendTransactionPaths_accepting(nd, n, msg) ==
    LET tp == msg.tp
    IN  IF exist_transaction(nd.blockchain, tp.transaction.hash)
        THEN Skipped(nd)
        ELSE Handled([nd EXCEPT !.transaction_paths_cache =
                          Append(CacheWithout(@, {tp.transaction.hash}), tp)],
                     {TransactionPathsMsg(k, TransactionPaths_add_path(tp, k, n), n) :
                         k \in Neighbors(n) \ {msg.from}},
                     {}, FALSE)

\* Node::run, SendTransactionPaths (verify_last is commented out).
HandleSendTransactionPaths(nd, n, msg) ==
    LET tp == msg.tp
        cache == nd.transaction_paths_cache
    IN  IF exist_transaction(nd.blockchain, tp.transaction.hash)
        THEN Skipped(nd)
        ELSE IF \E i \in 1..Len(cache) :
                   /\ cache[i].transaction.hash = tp.transaction.hash
                   /\ Len(cache[i].paths) <= Len(tp.paths)
        THEN Skipped(nd)
        ELSE Handled([nd EXCEPT !.transaction_paths_cache =
                          Append(CacheWithout(@, {tp.transaction.hash}), tp)],
                     {TransactionPathsMsg(k, TransactionPaths_add_path(tp, k, n), n) :
                         k \in Neighbors(n) \ {msg.from}},
                     {}, FALSE)

\* Node::generate_block: the cache is taken and cleared, the transactions
\* already in the chain are left out, the block is built on the tip and
\* added to the node's own chain.
generate_block(nd, n) ==
    LET cache == nd.transaction_paths_cache
        fresh(x) == ~exist_transaction(nd.blockchain, x.transaction.hash)
        taken == SelectSeq(cache, fresh)
        sealed == [i \in 1..Len(taken) |->
                      AggregatedSignedPaths_from_transaction_paths(taken[i])]
        cleared == [nd EXCEPT !.transaction_paths_cache = <<>>]
    IN  IF \E i \in 1..Len(taken) : sealed[i].tag = "panic"
        THEN [tag |-> "panic", node |-> cleared]
        ELSE LET body == Body_new(
                             [i \in 1..Len(taken) |-> taken[i].transaction],
                             [i \in 1..Len(taken) |-> sealed[i].asp])
                 new == Block_new(get_last_index(nd.blockchain) + 1, nd.epoch,
                                  nd.slot, get_last_hash(nd.blockchain), body, n)
             IN  IF new.tag # "ok" THEN [tag |-> new.tag, node |-> cleared]
                 ELSE LET r == add_block(nd.blockchain, new.block)
                      IN  IF r.tag = "Ok"
                          THEN [tag |-> "ok", block |-> new.block,
                                node |-> [cleared EXCEPT !.blockchain = r.bc]]
                          ELSE [tag |-> IF r.tag = "panic" THEN "panic"
                                        ELSE "InvalidBlock",
                                node |-> cleared]

\* GenerateBlock that produces a block whether or not a sync is in progress.
HandleGenerateBlock_while_syncing(nd, n) ==
    LET g == generate_block(nd, n)
    IN  IF g.tag = "diverges" THEN Handled(g.node, {}, {}, TRUE)
        ELSE IF g.tag = "panic"
        THEN Handled([g.node EXCEPT !.running = FALSE], {}, {}, FALSE)
        ELSE IF g.tag # "ok" THEN Skipped(g.node)
        ELSE Handled(g.node,
                     {SendBlockMsg(k, g.block, n) : k \in Neighbors(n)},
                     {SendBlockMsg(NoSender, g.block, n)}, FALSE)

\* Node::run, GenerateBlock.
HandleGenerateBlock(nd, n) ==
    IF nd.sync_in_progress THEN Skipped(nd)
    ELSE LET g == generate_block(nd, n)
         IN  IF g.tag = "diverges" THEN Handled(g.node, {}, {}, TRUE)
             ELSE IF g.tag = "panic"
             THEN Handled([g.node EXCEPT !.running = FALSE], {}, {}, FALSE)
             ELSE IF g.tag # "ok" THEN Skipped(g.node)
             ELSE Handled(g.node,
                          {SendBlockMsg(k, g.block, n) : k \in Neighbors(n)},
                          {SendBlockMsg(NoSender, g.block, n)}, FALSE)

\* deduct_balance that subtracts whatever the balance is.
deduct_balance_unchecked(nd, amount) ==
    [ok |-> TRUE, node |-> [nd EXCEPT !.balance = @ - amount]]

\* Node::deduct_balance
deduct_balance(nd, amount) ==
    IF nd.balance >= amount
    THEN [ok |-> TRUE, node |-> [nd EXCEPT !.balance = @ - amount]]
    ELSE [ok |-> FALSE, node |-> nd]

\* Node::run, GenerateTransactionPaths: the fee is paid, WorldState is told
\* the new balance, the transaction is cached and sent to every neighbour.
\* timestamp is the second get_timestamp returns.
HandleGenerateTransactionPaths(nd, n, msg, timestamp) ==
    LET paid == deduct_balance(nd, nd.transaction_fee)
        tp == TransactionPaths_new(Transaction_new(msg.dest, timestamp, n))
    IN  IF ~paid.ok THEN Skipped(nd)
        ELSE Handled([paid.node EXCEPT !.transaction_paths_cache = Append(@, tp)],
                     {TransactionPathsMsg(k, TransactionPaths_add_path(tp, k, n), n) :
                         k \in Neighbors(n)},
                     {UpdateValidatorStakeMsg(n, paid.node.balance)}, FALSE)

\* Node::run, UpdateSlot.  leave is the draw of gen_bool(offline_probability);
\* offline_until_epoch is {} for None and {e} for Some(e).
HandleUpdateSlot(nd, n, msg, leave) ==
    LET ticked == [nd EXCEPT !.slot = msg.current_slot,
                             !.epoch = msg.current_epoch]
        back == /\ ~nd.is_online
                /\ nd.offline_until_epoch # {}
                /\ \A e \in nd.offline_until_epoch : msg.current_epoch >= e
        woken == IF back
                 THEN [ticked EXCEPT !.is_online = TRUE,
                                     !.offline_until_epoch = {}]
                 ELSE ticked
        requests == IF back
                    THEN {RequestBlockSyncMsg(k, Len(nd.blockchain.blocks) - 1, n) :
                             k \in Neighbors(n)}
                    ELSE {}
        may_leave == /\ woken.is_online
                     /\ woken.epoch # nd.epoch
                     /\ woken.offline_until_epoch = {}
    IN  IF nd.node_type # "Unstable" THEN Handled(ticked, {}, {}, FALSE)
        ELSE IF may_leave /\ leave
        THEN Handled([woken EXCEPT !.is_online = FALSE,
                                   !.offline_until_epoch = {woken.epoch + 1}],
                     requests, {}, FALSE)
        ELSE Handled(woken, requests, {}, FALSE)

\* Node::run, RequestBlockSync.
HandleRequestBlockSync(nd, n, msg) ==
    IF nd.sync_in_progress THEN Skipped(nd)
    ELSE IF ~(msg.index < Len(nd.blockchain.blocks)) THEN Skipped(nd)
    ELSE IF msg.from \notin Neighbors(n) THEN Skipped(nd)
    ELSE Handled(nd,
                 {ResponseBlockSyncMsg(msg.from,
                      SubSeq(nd.blockchain.blocks, msg.index + 1,
                             Len(nd.blockchain.blocks)),
                      n)},
                 {}, FALSE)

\* The loop of ResponseBlockSync over sync_blocks from position i on.
RECURSIVE SyncBlocks(_, _, _, _, _)
SyncBlocks(chain, sync_blocks, i, expected, success) ==
    IF i > Len(sync_blocks)
    THEN [tag |-> "done", bc |-> chain, success |-> success]
    ELSE IF sync_blocks[i].header.index # expected
    THEN [tag |-> "done", bc |-> chain, success |-> success]
    ELSE LET r == add_block(chain, sync_blocks[i])
         IN  IF r.tag = "panic"
             THEN [tag |-> "panic", bc |-> chain, success |-> success]
             ELSE IF r.tag = "Ok"
             THEN SyncBlocks(r.bc, sync_blocks, i + 1, expected + 1, TRUE)
             ELSE IF r.tag = "DuplicateBlocksReceived"
             THEN SyncBlocks(chain, sync_blocks, i + 1, expected + 1, success)
             ELSE IF r.tag \in {"ParentHashMismatch", "TransactionExists"}
             THEN [tag |-> "done",
                   bc |-> IF Len(chain.blocks) = 1 THEN chain
                          ELSE pop_block(chain),
                   success |-> success]
             ELSE [tag |-> "done", bc |-> chain, success |-> success]

\* Node::run, ResponseBlockSync.
HandleResponseBlockSync(nd, n, msg) ==
    LET sync_blocks == msg.blocks
        current_index == get_last_index(nd.blockchain)
        target_index == current_index + 1
        found == {i \in 1..Len(sync_blocks) :
                     sync_blocks[i].header.index = target_index}
    IN  IF Len(sync_blocks) = 0 THEN Skipped(nd)
        ELSE IF current_index >= sync_blocks[Len(sync_blocks)].header.index
        THEN Skipped(nd)
        ELSE IF found = {}
        THEN Handled([nd EXCEPT !.sync_in_progress = FALSE], {}, {}, FALSE)
        ELSE LET start_idx == CHOOSE i \in found : \A j \in found : i <= j
                 s == SyncBlocks(nd.blockchain, sync_blocks, start_idx,
                                 target_index, FALSE)
             IN  IF s.tag = "panic"
                 THEN Handled([nd EXCEPT !.running = FALSE], {}, {}, FALSE)
                 ELSE Handled([nd EXCEPT
                                   !.blockchain = s.bc,
                                   !.sync_in_progress =
                                       IF s.success THEN FALSE ELSE @],
                              {}, {}, FALSE)

\* An offline node that reports every message it drops to WorldState.
HandleOffline_reporting(nd, n, msg) ==
    Handled(nd, {}, {BlockProductionFailedMsg(n, nd.slot)}, FALSE)

\* Node::run while the node is offline: every message but UpdateSlot is
\* dropped, and a missed GenerateBlock is reported to WorldState.
HandleOffline(nd, n, msg) ==
    IF msg.type = "GenerateBlock"
    THEN Handled(nd, {}, {BlockProductionFailedMsg(n, nd.slot)}, FALSE)
    ELSE Skipped(nd)

\* The messages of a handler that WorldState::run acts on or counts.  It
\* matches UpdateValidatorStake with no arm of its own and drops it, so the
\* message is not kept in flight.
ForWorld(msgs) == {m \in msgs : m.type # "UpdateValidatorStake"}

\* A node takes messages as long as its task and the process are alive.
Receiving(n) == ~aborted /\ nodes[n].running

\* The node has handled peer message msg with outcome h.
AfterPeerMessage(n, msg, h) ==
    /\ nodes' = [nodes EXCEPT ![n] = h.node]
    /\ net' = (net (-) SetToBag({msg})) (+) SetToBag(h.out)
    /\ world_in' = world_in (+) SetToBag(ForWorld(h.world))
    /\ aborted' = h.abort
    /\ UNCHANGED <<wsq, ws>>

\* The node has handled the oldest message WorldState sent it.
AfterWorldMessage(n, h) ==
    /\ nodes' = [nodes EXCEPT ![n] = h.node]
    /\ wsq' = [wsq EXCEPT ![n] = Tail(@)]
    /\ net' = net (+) SetToBag(h.out)
    /\ world_in' = world_in (+) SetToBag(ForWorld(h.world))
    /\ aborted' = h.abort
    /\ UNCHANGED ws

PeerMessages(n, type) ==
    {msg \in BagToSet(net) : msg.to = n /\ msg.type = type}

NodeSendBlock(n) ==
    /\ Receiving(n) /\ nodes[n].is_online
    /\ \E msg \in PeerMessages(n, "SendBlock") :
           AfterPeerMessage(n, msg, HandleSendBlock(nodes[n], n, msg))
    /\ UNCHANGED <<tg, bc, call, input>>

NodeSendTransactionPaths(n) ==
    /\ Receiving(n) /\ nodes[n].is_online
    /\ \E msg \in PeerMessages(n, "SendTransactionPaths") :
           AfterPeerMessage(n, msg, HandleSendTransactionPaths(nodes[n], n, msg))
    /\ UNCHANGED <<tg, bc, call, input>>

\* What get_timestamp can return, in seconds from the first transaction: the
\* second of the transaction before, or the next.
ClockReadings ==
    IF tg.created = 0 THEN {0} ELSE {tg.clock, tg.clock + 1}

NodeGenerateTransactionPaths(n) ==
    /\ Receiving(n) /\ nodes[n].is_online
    /\ \E msg \in PeerMessages(n, "GenerateTransactionPaths") :
       \E timestamp \in ClockReadings :
           /\ AfterPeerMessage(n, msg,
                  HandleGenerateTransactionPaths(nodes[n], n, msg, timestamp))
           /\ tg' = [tg EXCEPT !.created = @ + 1, !.clock = timestamp]
    /\ UNCHANGED <<bc, call, input>>

NodeRequestBlockSync(n) ==
    /\ Receiving(n) /\ nodes[n].is_online
    /\ \E msg \in PeerMessages(n, "RequestBlockSync") :
           AfterPeerMessage(n, msg, HandleRequestBlockSync(nodes[n], n, msg))
    /\ UNCHANGED <<tg, bc, call, input>>

NodeResponseBlockSync(n) ==
    /\ Receiving(n) /\ nodes[n].is_online
    /\ \E msg \in PeerMessages(n, "ResponseBlockSync") :
           AfterPeerMessage(n, msg, HandleResponseBlockSync(nodes[n], n, msg))
    /\ UNCHANGED <<tg, bc, call, input>>

NodeGenerateBlock(n) ==
    /\ Receiving(n) /\ nodes[n].is_online
    /\ wsq[n] # <<>> /\ Head(wsq[n]).type = "GenerateBlock"
    /\ AfterWorldMessage(n, HandleGenerateBlock(nodes[n], n))
    /\ UNCHANGED <<tg, bc, call, input>>

NodeUpdateSlot(n) ==
    /\ Receiving(n)
    /\ wsq[n] # <<>> /\ Head(wsq[n]).type = "UpdateSlot"
    /\ \E leave \in BOOLEAN :
           AfterWorldMessage(n, HandleUpdateSlot(nodes[n], n, Head(wsq[n]), leave))
    /\ UNCHANGED <<tg, bc, call, input>>

NodeOfflinePeer(n) ==
    /\ Receiving(n) /\ ~nodes[n].is_online
    /\ \E msg \in {m \in BagToSet(net) : m.to = n} :
           AfterPeerMessage(n, msg, HandleOffline(nodes[n], n, msg))
    /\ UNCHANGED <<tg, bc, call, input>>

NodeOfflineWorld(n) ==
    /\ Receiving(n) /\ ~nodes[n].is_online
    /\ wsq[n] # <<>> /\ Head(wsq[n]).type # "UpdateSlot"
    /\ AfterWorldMessage(n, HandleOffline(nodes[n], n, Head(wsq[n])))
    /\ UNCHANGED <<tg, bc, call, input>>

\* tools::Hasher::hash
Hasher_hash(data) == <<"sha3", data>>

\* The XOR of two seeds of the given number of bits.
RECURSIVE XorBits(_, _, _)
XorBits(a, b, bits) ==
    IF bits = 0 THEN 0
    ELSE ((a + b) % 2) + 2 * XorBits(a \div 2, b \div 2, bits - 1)

\* combine_seed over the contributions from index i on, result being the XOR
\* so far.  validators is the set of the validators' addresses.
RECURSIVE CombineFrom(_, _, _, _)
CombineFrom(validators, vdf_seeds, i, result) ==
    IF i > Len(vdf_seeds) THEN [tag |-> "ok", seed |-> Hasher_hash(result)]
    ELSE LET v == vdf_seeds[i]
         IN  IF v.address \notin validators
             THEN CombineFrom(validators, vdf_seeds, i + 1, result)
             ELSE LET valid == Wallet_verify_by_address(v.seed, v.signature,
                                                        v.address)
                  IN  IF valid = "panic" THEN [tag |-> "panic"]
                      ELSE IF valid = "true"
                      THEN CombineFrom(validators, vdf_seeds, i + 1,
                                       XorBits(result, v.seed, SeedBits))
                      ELSE CombineFrom(validators, vdf_seeds, i + 1, result)

combine_seed(validators, vdf_seeds) == CombineFrom(validators, vdf_seeds, 1, 0)

\* The blocks of WorldState's chain that belong to the epoch being closed.
get_last_epoch_block(chain, epoch) ==
    LET closed(b) == b.header.epoch = epoch
    IN  SelectSeq(chain.blocks, closed)

\* WorldState::next_epoch: the engine is told the epoch has ended, then the
\* first slot of the next epoch begins.
next_epoch(w) ==
    [w EXCEPT !.consensus =
                  on_epoch_end(@, get_last_epoch_block(w.blockchain,
                                                       w.current_epoch)),
              !.current_epoch = @ + 1,
              !.current_slot = 0,
              !.randao_seeds = <<>>,
              !.next_seed = combine_seed(w.validators, w.randao_seeds).seed]

\* The timer without the advance of the slot.
next_slot_stuck(w) == [w EXCEPT !.ticks = @ + 1]

\* WorldState::next_slot on the timer: the slot advances, every node is
\* sent UpdateSlot and the selected proposer GenerateBlock after it.
next_slot(w) ==
    IF w.current_slot >= SlotsPerEpoch - 1
    THEN [next_epoch(w) EXCEPT !.ticks = @ + 1]
    ELSE [w EXCEPT !.current_slot = @ + 1, !.ticks = @ + 1,
                   !.randao_seeds = <<>>,
                   !.next_seed = combine_seed(w.validators, w.randao_seeds).seed]

\* The timer task: a panic within combine_seed ends it.
WsNextSlot ==
    /\ ~aborted
    /\ ws.timer
    /\ ws.ticks < MaxSlots
    /\ IF combine_seed(ws.validators, ws.randao_seeds).tag = "panic"
       THEN /\ ws' = [ws EXCEPT !.timer = FALSE]
            /\ wsq' = wsq
       ELSE /\ ws' = next_slot(ws)
            /\ \E miner \in ws.validators :
                   wsq' = [n \in Nodes |->
                              LET updated == Append(wsq[n],
                                      UpdateSlotMsg(ws'.current_epoch,
                                                    ws'.current_slot))
                              IN  IF n = miner
                                  THEN Append(updated, GenerateBlockMsg)
                                  ELSE updated]
    /\ UNCHANGED <<nodes, net, world_in, tg, aborted, bc, call, input>>

\* WorldState::run, the receiver task: a block is added to WorldState's
\* chain, any other message of a node is dropped.
WsReceive ==
    /\ ~aborted
    /\ ws.receiving
    /\ \E msg \in BagToSet(world_in) :
           /\ world_in' = world_in (-) SetToBag({msg})
           /\ IF msg.type # "SendBlock" THEN UNCHANGED ws
              ELSE LET r == add_block(ws.blockchain, msg.block)
                   IN  ws' = IF r.tag = "panic" THEN [ws EXCEPT !.receiving = FALSE]
                             ELSE [ws EXCEPT !.blockchain = r.bc]
    /\ UNCHANGED <<nodes, net, wsq, tg, aborted, bc, call, input>>

\* TransactionGenerator::run: a node is asked for a transaction to another
\* node.
GenerateTx ==
    /\ ~aborted
    /\ tg.requested < MaxTx
    /\ \E n \in Nodes : \E to \in Nodes \ {n} :
           net' = net (+) SetToBag({GenerateTransactionPathsMsg(n, to)})
    /\ tg' = [tg EXCEPT !.requested = @ + 1]
    /\ UNCHANGED <<nodes, wsq, ws, world_in, aborted, bc, call, input>>

Init == ChainIdle /\ input = NoInput /\ NetInit

Next ==
    \/ WsNextSlot
    \/ WsReceive
    \/ GenerateTx
    \/ \E n \in Nodes :
           \/ NodeSendBlock(n)
           \/ NodeSendTransactionPaths(n)
           \/ NodeGenerateTransactionPaths(n)
           \/ NodeRequestBlockSync(n)
           \/ NodeResponseBlockSync(n)
           \/ NodeGenerateBlock(n)
           \/ NodeUpdateSlot(n)
           \/ NodeOfflinePeer(n)
           \/ NodeOfflineWorld(n)

Spec == Init /\ [][Next]_vars

\* Node n's task handles a message of a peer.
NodePeerStep(n) ==
    \/ NodeSendBlock(n)
    \/ NodeSendTransactionPaths(n)
    \/ NodeGenerateTransactionPaths(n)
    \/ NodeRequestBlockSync(n)
    \/ NodeResponseBlockSync(n)
    \/ NodeOfflinePeer(n)

\* Node n's task can handle a message of WorldState, and does: only the
\* handlers of the node take a message out of wsq[n].
WorldStepEnabled(n) == Receiving(n) /\ wsq[n] # <<>>

WorldStepTaken(n) == wsq[n] # <<>> /\ wsq'[n] = Tail(wsq[n])

\* The network over the slots in which a fork can come about: the timer
\* stops after MaxSyncSlots slots.
SyncNextSlot == ws.ticks < MaxSyncSlots /\ WsNextSlot

SyncNext ==
    \/ SyncNextSlot
    \/ WsReceive
    \/ GenerateTx
    \/ \E n \in Nodes :
           \/ NodeSendBlock(n)
           \/ NodeSendTransactionPaths(n)
           \/ NodeGenerateTransactionPaths(n)
           \/ NodeRequestBlockSync(n)
           \/ NodeResponseBlockSync(n)
           \/ NodeGenerateBlock(n)
           \/ NodeUpdateSlot(n)
           \/ NodeOfflinePeer(n)
           \/ NodeOfflineWorld(n)

SpecSync == Init /\ [][SyncNext]_vars

\* The timer task can take a step, and does.
TimerEnabled == ~aborted /\ ws.timer /\ ws.ticks < MaxSyncSlots

TimerTaken == ws.timer /\ (ws'.ticks = ws.ticks + 1 \/ ~ws'.timer)

\* Fair delivery: every task takes the messages of its mailbox as long as
\* there are any, and the timer ticks as long as it may.  The weak fairness
\* of the handlers of WorldState's messages and of the timer is written
\* out with the conditions under which they are enabled.
SpecSyncFair ==
    /\ SpecSync
    /\ WF_vars(WsReceive)
    /\ \A n \in Nodes : WF_vars(NodePeerStep(n))
    /\ \A n \in Nodes :
          []<>~WorldStepEnabled(n) \/ []<><<WorldStepTaken(n)>>_vars
    /\ []<>~TimerEnabled \/ []<><<TimerTaken>>_vars

(***************************************************************************)
(* WorldState's timer and its collection of RANDAO contributions           *)
(* (SpecSlots).  input holds the number of slots per epoch the network was *)
(* started with.                                                           *)
(***************************************************************************)
\* What a contribution's signature can be: the address's signature of the
\* seed, of another seed, another wallet's signature, and a string too short
\* for a signature.
ContributionSignatures(address, seed) ==
    {Wallet_sign(address, seed)}
    \cup {Wallet_sign(address, other) : other \in (0..MaxSeed) \ {seed}}
    \cup {Wallet_sign(w, seed) : w \in Nodes \ {address}}
    \cup {[Wallet_sign(address, seed) EXCEPT !.len = 0]}

Contributions ==
    UNION {{[address |-> a, seed |-> seed, signature |-> sig] :
               sig \in ContributionSignatures(a, seed)} :
              a \in Nodes, seed \in 1..MaxSeed}

InitSlots ==
    /\ ChainIdle
    /\ \E slot_per_epoch \in 1..MaxSlotPerEpoch :
           input = [kind |-> "slots", slot_per_epoch |-> slot_per_epoch]
    /\ \E validators \in (SUBSET Nodes) \ {{}} :
           NetInitWith([WorldState_new(Blockchain_new(gen_genesis_block))
                           EXCEPT !.validators = validators])

\* The receiver task on ReceiveRandaoSeed: the contribution is pushed.
WsReceiveRandaoSeed ==
    /\ ~aborted
    /\ ws.receiving
    /\ Len(ws.randao_seeds) < MaxSeeds
    /\ \E randao_seed \in Contributions :
           ws' = [ws EXCEPT !.randao_seeds = Append(@, randao_seed)]
    /\ UNCHANGED <<nodes, net, wsq, world_in, tg, aborted, bc, call, input>>

SlotsNext ==
    \/ WsNextSlot
    \/ WsReceiveRandaoSeed

SpecSlots == InitSlots /\ [][SlotsNext]_vars

(***************************************************************************)
(* The collection of the RANDAO contributions (SpecRandao).  WorldState    *)
(* rolls the slot over on its timer and asks every validator for a         *)
(* contribution, the nodes answer from their mailboxes and the receiver     *)
(* task collects the answers.  input.sybils are the Sybil addresses that    *)
(* node SybilOwner registered as validators.                               *)
(***************************************************************************)
SybilAddr == 4

SybilOwner == 1

\* network/mod.rs start_network: the mailbox behind a validator's address;
\* the messages for a Sybil address go to the node that controls it.
nodes_sender(address) == IF address = SybilAddr THEN SybilOwner ELSE address

SendRandaoSeedMsg == [type |-> "SendRandaoSeed"]

ReceiveRandaoSeedMsg(randao_seed) ==
    [type |-> "ReceiveRandaoSeed", randao_seed |-> randao_seed]

\* Message::new_send_randao_seed_msg, count times.
SeedRequests(count) == [i \in 1..count |-> SendRandaoSeedMsg]

InitRandao ==
    /\ ChainIdle
    /\ \E sybils \in SUBSET {SybilAddr} :
           /\ input = [kind |-> "randao", sybils |-> sybils]
           /\ NetInitWith([WorldState_new(Blockchain_new(gen_genesis_block))
                              EXCEPT !.validators = Nodes \cup sybils])

\* WorldState::next_slot on the timer: the contributions are folded, every
\* node is sent UpdateSlot, the mailbox of every validator address
\* SendRandaoSeed, and the mailbox of the selected proposer GenerateBlock.
RandaoNextSlot ==
    /\ ~aborted
    /\ ws.timer
    /\ ws.ticks < MaxSlots
    /\ IF combine_seed(ws.validators, ws.randao_seeds).tag = "panic"
       THEN /\ ws' = [ws EXCEPT !.timer = FALSE]
            /\ wsq' = wsq
       ELSE /\ ws' = next_slot(ws)
            /\ \E miner \in ws.validators :
                   wsq' = [n \in Nodes |->
                              wsq[n]
                              \o <<UpdateSlotMsg(ws'.current_epoch,
                                                 ws'.current_slot)>>
                              \o SeedRequests(Cardinality(
                                     {v \in ws.validators : nodes_sender(v) = n}))
                              \o IF nodes_sender(miner) = n
                                 THEN <<GenerateBlockMsg>> ELSE <<>>]
    /\ UNCHANGED <<nodes, net, world_in, tg, aborted, bc, call, input>>

\* Node::run, SendRandaoSeed: a fresh seed signed by the node's wallet goes
\* to WorldState under the node's address.
HandleSendRandaoSeed(nd, n, seed) ==
    Handled(nd, {},
            {ReceiveRandaoSeedMsg([address |-> n, seed |-> seed,
                                   signature |-> Wallet_sign(n, seed)])},
            FALSE)

NodeSendRandaoSeed(n) ==
    /\ Receiving(n) /\ nodes[n].is_online
    /\ wsq[n] # <<>> /\ Head(wsq[n]).type = "SendRandaoSeed"
    /\ \E seed \in 1..MaxSeed :
           AfterWorldMessage(n, HandleSendRandaoSeed(nodes[n], n, seed))
    /\ UNCHANGED <<tg, bc, call, input>>

\* WorldState::run, the receiver task: a contribution is pushed onto the
\* list of the slot that is current when it is received, a block is added
\* to WorldState's chain.
RandaoWsReceive ==
    /\ ~aborted
    /\ ws.receiving
    /\ \E msg \in BagToSet(world_in) :
           /\ world_in' = world_in (-) SetToBag({msg})
           /\ IF msg.type = "ReceiveRandaoSeed"
              THEN ws' = [ws EXCEPT !.randao_seeds = Append(@, msg.randao_seed)]
              ELSE IF msg.type # "SendBlock" THEN UNCHANGED ws
              ELSE LET r == add_block(ws.blockchain, msg.block)
                   IN  ws' = IF r.tag = "panic"
                             THEN [ws EXCEPT !.receiving = FALSE]
                             ELSE [ws EXCEPT !.blockchain = r.bc]
    /\ UNCHANGED <<nodes, net, wsq, tg, aborted, bc, call, input>>

RandaoNext ==
    \/ RandaoNextSlot
    \/ RandaoWsReceive
    \/ \E n \in Nodes :
           \/ NodeSendRandaoSeed(n)
           \/ NodeUpdateSlot(n)
           \/ NodeGenerateBlock(n)
           \/ NodeOfflineWorld(n)

SpecRandao == InitRandao /\ [][RandaoNext]_vars

(***************************************************************************)
(* The flood of one transaction (SpecGossip).  The nodes of a connected    *)
(* graph relay the paths of one transaction; WorldState's timer does not   *)
(* run, so no block is produced.  input holds the graph and the number of  *)
(* SendTransactionPaths messages sent so far.                              *)
(***************************************************************************)
GossipThird == 5

GossipNodes == Nodes \cup {GossipThird}

GossipEdges == {e \in SUBSET GossipNodes : Cardinality(e) = 2}

\* The nodes reached from the nodes of seen over the edges of graph.
RECURSIVE ReachedFrom(_, _)
ReachedFrom(seen, graph) ==
    LET more == seen \cup UNION {e \in graph : e \cap seen # {}}
    IN  IF more = seen THEN seen ELSE ReachedFrom(more, graph)

\* The connected graphs over the nodes.
GossipGraphs ==
    {graph \in SUBSET GossipEdges :
        ReachedFrom({GossipThird}, graph) = GossipNodes}

InitGossip ==
    /\ ChainIdle
    /\ \E graph \in GossipGraphs :
           input = [kind |-> "gossip", sent |-> 0,
                    neighbors |-> [n \in GossipNodes |->
                                      {k \in GossipNodes \ {n} : {n, k} \in graph}]]
    /\ nodes = [n \in GossipNodes |->
                   Node_new(0, 0, Blockchain_new(gen_genesis_block),
                            NodeTypeOf(n))]
    /\ \E n \in GossipNodes : \E to \in GossipNodes \ {n} :
           net = SetToBag({GenerateTransactionPathsMsg(n, to)})
    /\ wsq = [n \in GossipNodes |-> <<>>]
    /\ ws = WorldState_new(Blockchain_new(gen_genesis_block))
    /\ world_in = EmptyBag
    /\ tg = [requested |-> 1, created |-> 0, clock |-> 0]
    /\ aborted = FALSE

\* The node handles GenerateTransactionPaths; the messages it sends are
\* counted.
GossipGenerateTransactionPaths(n) ==
    /\ Receiving(n) /\ nodes[n].is_online
    /\ \E msg \in PeerMessages(n, "GenerateTransactionPaths") :
       \E timestamp \in ClockReadings :
           LET h == HandleGenerateTransactionPaths(nodes[n], n, msg, timestamp)
           IN  /\ AfterPeerMessage(n, msg, h)
               /\ tg' = [tg EXCEPT !.created = @ + 1, !.clock = timestamp]
               /\ input' = [input EXCEPT !.sent = @ + Cardinality(h.out)]
    /\ UNCHANGED <<bc, call>>

\* The node handles SendTransactionPaths; the messages it sends are counted.
GossipSendTransactionPaths(n) ==
    /\ Receiving(n) /\ nodes[n].is_online
    /\ \E msg \in PeerMessages(n, "SendTransactionPaths") :
           LET h == HandleSendTransactionPaths(nodes[n], n, msg)
           IN  /\ AfterPeerMessage(n, msg, h)
               /\ input' = [input EXCEPT !.sent = @ + Cardinality(h.out)]
    /\ UNCHANGED <<tg, bc, call>>

GossipNodeStep(n) ==
    \/ GossipGenerateTransactionPaths(n)
    \/ GossipSendTransactionPaths(n)

GossipNext ==
    \/ \E n \in GossipNodes : GossipGenerateTransactionPaths(n)
    \/ \E n \in GossipNodes : GossipSendTransactionPaths(n)

SpecGossip == InitGossip /\ [][GossipNext]_vars

\* Every node's task takes the messages of its mailbox as long as there are
\* any.
SpecGossipFair ==
    /\ SpecGossip
    /\ \A n \in GossipNodes : WF_vars(GossipNodeStep(n))

(***************************************************************************)
(* The tasks and their bounded mailboxes (SpecMailbox).  wsq[n] is the     *)
(* mailbox of node n, with what WorldState and the peers sent it, world_in *)
(* the mailbox of WorldState.  call holds the holder of WorldState's write *)
(* lock, the position of the timer task, of the receiver task and of every *)
(* node's task, the messages the timer has still to send in next_slot, and *)
(* whether a spawned task has a block to send to WorldState (0 or 1).      *)
(* A send into a full mailbox waits.                                       *)
(***************************************************************************)
InitMailbox ==
    /\ bc = Blockchain_new(gen_genesis_block)
    /\ call = [op |-> "mailboxes", result |-> "none", lock |-> "free",
               timer |-> "sleep", todo |-> <<>>, receiver |-> "recv",
               actor |-> [n \in Nodes |-> "recv"], spawned |-> 0]
    /\ input = [kind |-> "mailbox"]
    /\ NetInit

\* The messages of WorldState::next_slot in the order they are sent:
\* UpdateSlot to every node, SendRandaoSeed to every validator,
\* GenerateBlock to the proposer.
SlotMessages(order, miner) ==
    [i \in 1..Len(order) |-> [to |-> order[i], type |-> "UpdateSlot"]]
    \o [i \in 1..Len(order) |-> [to |-> order[i], type |-> "SendRandaoSeed"]]
    \o <<[to |-> miner, type |-> "GenerateBlock"]>>

\* The orders in which a map of the nodes is iterated.
NodeOrders ==
    {order \in [1..Cardinality(Nodes) -> Nodes] :
        \A i, j \in 1..Cardinality(Nodes) : order[i] = order[j] => i = j}

\* The timer task: the deadline has passed and the task takes the write
\* lock of WorldState, which it keeps throughout next_slot.
TimerLock ==
    /\ call.timer = "sleep"
    /\ call.lock = "free"
    /\ \E order \in NodeOrders : \E miner \in Nodes :
           call' = [call EXCEPT !.lock = "timer", !.timer = "send",
                                !.todo = SlotMessages(order, miner)]
    /\ UNCHANGED <<bc, input, nodes, net, wsq, ws, world_in, tg, aborted>>

\* next_slot: sender.send(..).await of the next message, into a mailbox
\* that is not full.
TimerSend ==
    /\ call.timer = "send" /\ call.todo # <<>>
    /\ LET msg == Head(call.todo)
       IN  /\ Len(wsq[msg.to]) < MailboxCapacity
           /\ wsq' = [wsq EXCEPT ![msg.to] = Append(@, [type |-> msg.type])]
    /\ call' = [call EXCEPT !.todo = Tail(@)]
    /\ UNCHANGED <<bc, input, nodes, net, ws, world_in, tg, aborted>>

\* next_slot has returned: the lock is given back.
TimerUnlock ==
    /\ call.timer = "send" /\ call.todo = <<>>
    /\ call' = [call EXCEPT !.lock = "free", !.timer = "sleep"]
    /\ UNCHANGED <<bc, input, nodes, net, wsq, ws, world_in, tg, aborted>>

\* The receiver task: receiver.recv() returns a message.
ReceiverRecv ==
    /\ call.receiver = "recv"
    /\ \E msg \in BagToSet(world_in) :
           world_in' = world_in (-) SetToBag({msg})
    /\ call' = [call EXCEPT !.receiver = "lock"]
    /\ UNCHANGED <<bc, input, nodes, net, wsq, ws, tg, aborted>>

\* The receiver task: shared_self.write().await returns, the message is
\* handled and the lock is given back.
ReceiverHandle ==
    /\ call.receiver = "lock"
    /\ call.lock = "free"
    /\ call' = [call EXCEPT !.receiver = "recv"]
    /\ UNCHANGED <<bc, input, nodes, net, wsq, ws, world_in, tg, aborted>>

\* Node::run: the task of node n takes a message out of its mailbox.  On
\* SendRandaoSeed it goes on to send its contribution to WorldState, on
\* GenerateBlock it spawns a task that sends the block to WorldState.
ActorRecv(n) ==
    /\ call.actor[n] = "recv"
    /\ wsq[n] # <<>>
    /\ wsq' = [wsq EXCEPT ![n] = Tail(@)]
    /\ call' = IF Head(wsq[n]).type = "SendRandaoSeed"
               THEN [call EXCEPT !.actor[n] = "send"]
               ELSE IF Head(wsq[n]).type = "GenerateBlock"
               THEN [call EXCEPT !.spawned = 1]
               ELSE call
    /\ UNCHANGED <<bc, input, nodes, net, ws, world_in, tg, aborted>>

\* Node::run, SendRandaoSeed: world_state_sender.send(..).await, into a
\* mailbox that is not full.
ActorSend(n) ==
    /\ call.actor[n] = "send"
    /\ BagCardinality(world_in) < WorldMailboxCapacity
    /\ world_in' = world_in (+) SetToBag({[type |-> "ReceiveRandaoSeed",
                                           from |-> n]})
    /\ call' = [call EXCEPT !.actor[n] = "recv"]
    /\ UNCHANGED <<bc, input, nodes, net, wsq, ws, tg, aborted>>

\* A spawned task sends a block to WorldState.
SpawnedSend ==
    /\ call.spawned > 0
    /\ BagCardinality(world_in) < WorldMailboxCapacity
    /\ world_in' = world_in (+) SetToBag({[type |-> "SendBlock",
                                           from |-> NoSender]})
    /\ call' = [call EXCEPT !.spawned = 0]
    /\ UNCHANGED <<bc, input, nodes, net, wsq, ws, tg, aborted>>

\* A task that a neighbour or the transaction generator spawned sends node
\* n a message.
PeerSend(n) ==
    /\ Len(wsq[n]) < MailboxCapacity
    /\ wsq' = [wsq EXCEPT ![n] = Append(@, [type |-> "SendTransactionPaths"])]
    /\ UNCHANGED <<bc, call, input, nodes, net, ws, world_in, tg, aborted>>

MailboxNext ==
    \/ TimerLock
    \/ TimerSend
    \/ TimerUnlock
    \/ ReceiverRecv
    \/ ReceiverHandle
    \/ SpawnedSend
    \/ \E n \in Nodes : ActorRecv(n)
    \/ \E n \in Nodes : ActorSend(n)
    \/ \E n \in Nodes : PeerSend(n)

SpecMailbox == InitMailbox /\ [][MailboxNext]_vars

(***************************************************************************)
(* One node and what can be sent to it (SpecNode).  The node input.focus   *)
(* handles messages that its neighbours, a sender outside the network and  *)
(* WorldState put into its channel, one at a time; the other nodes do not  *)
(* run.  The nodes have the fee and the balance the network was given.     *)
(***************************************************************************)
InitNode ==
    /\ ChainIdle
    /\ \E focus \in Nodes :
           input = [kind |-> "node", focus |-> focus, sent |-> 0]
    /\ \E fee \in 0..MaxFee, balance \in 0..MaxBalance :
           nodes = [n \in Nodes |->
                       [Node_new(0, 0, Blockchain_new(gen_genesis_block),
                                 NodeTypeOf(n))
                           EXCEPT !.transaction_fee = fee, !.balance = balance]]
    /\ net = EmptyBag
    /\ wsq = [n \in Nodes |-> <<>>]
    /\ ws = WorldState_new(Blockchain_new(gen_genesis_block))
    /\ world_in = EmptyBag
    /\ tg = [requested |-> 0, created |-> 0, clock |-> 0]
    /\ aborted = FALSE

\* The bodies a miner can build: one transaction, with the paths by which
\* it reached the miner.
PeerBodies(miner) ==
    {Body_new(<<TxOf(w)>>, <<Sealed(TxOf(w), miner)>>) : w \in Wallets}

\* The blocks of a miner for the slot after the genesis slot, with the given
\* indexes and parent hashes.
PeerBlocks(indexes, parents, miner) ==
    {r.block : r \in {x \in {Block_new(i, ClockEpoch(1), ClockSlot(1), p,
                                       body, miner) :
                                i \in indexes, p \in parents,
                                body \in PeerBodies(miner)} :
                         x.tag = "ok"}}

\* The blocks a node can be sent: blocks on its tip, blocks on another
\* parent, a block of a later index, and the blocks it has.
PoolBlocks(n) ==
    LET chain == nodes[n].blockchain
        tip == get_last_index(chain)
    IN  UNION {PeerBlocks({tip + 1}, {get_last_hash(chain), EmptyHash}, k)
                  \cup PeerBlocks({tip + 2}, {get_last_hash(chain)}, k) :
                  k \in Neighbors(n)}
        \cup BlocksOf(chain)

\* The paths a node can be sent over one or two hops, and paths with a
\* forged transaction signature, a forged hop signature, and a last hop to
\* another address.
PoolPaths(n) ==
    LET routes == {r \in Routes : Len(r) \in {2, 3} /\ r[Len(r)] = n}
        direct == {BuildPaths(<<k, n>>) : k \in Neighbors(n)}
    IN  {BuildPaths(r) : r \in routes}
        \cup {[tp EXCEPT !.transaction.signature = ForgedTxSig(tp.transaction)] :
                 tp \in direct}
        \cup {[tp EXCEPT !.paths[1].signature = ForgedPathSig] : tp \in direct}
        \cup {BuildPaths(<<k, k>>) : k \in Neighbors(n)}

\* The answers to a block-sync request a node can be sent.
PoolResponses(n) ==
    LET chain == nodes[n].blockchain
        next == UNION {PeerBlocks({get_last_index(chain) + 1},
                                  {get_last_hash(chain)}, k) : k \in Neighbors(n)}
    IN  {<<>>}
        \cup {<<b>> : b \in PoolBlocks(n)}
        \cup UNION {{<<b, c>> :
                        c \in PeerBlocks({b.header.index + 1}, {b.header.hash},
                                         b.header.miner)} : b \in next}

PeerPool(n) ==
    {SendBlockMsg(n, b, from) :
        b \in PoolBlocks(n), from \in Neighbors(n) \cup {NoSender}}
    \cup {TransactionPathsMsg(n, tp, from) :
             tp \in PoolPaths(n), from \in Neighbors(n) \cup {NoSender}}
    \cup {RequestBlockSyncMsg(n, i, from) :
             i \in 0..MaxChainLen, from \in Neighbors(n) \cup {NoSender}}
    \cup {ResponseBlockSyncMsg(n, blocks, from) :
             blocks \in PoolResponses(n), from \in Neighbors(n)}
    \cup {GenerateTransactionPathsMsg(n, dest) : dest \in Nodes \ {n}}

WorldPool(n) ==
    {UpdateSlotMsg(nodes[n].epoch, nodes[n].slot + 1),
     UpdateSlotMsg(nodes[n].epoch + 1, 0),
     GenerateBlockMsg}

\* The channel of the node is empty.
ChannelEmpty(n) ==
    /\ wsq[n] = <<>>
    /\ \A m \in BagToSet(net) : m.to # n

EnvPeerSend ==
    /\ input.kind = "node" /\ input.sent < MaxSent
    /\ ChannelEmpty(input.focus)
    /\ \E msg \in PeerPool(input.focus) : net' = net (+) SetToBag({msg})
    /\ input' = [input EXCEPT !.sent = @ + 1]
    /\ UNCHANGED <<nodes, wsq, ws, world_in, tg, aborted, bc, call>>

EnvWorldSend ==
    /\ input.kind = "node" /\ input.sent < MaxSent
    /\ ChannelEmpty(input.focus)
    /\ \E msg \in WorldPool(input.focus) :
           wsq' = [wsq EXCEPT ![input.focus] = Append(@, msg)]
    /\ input' = [input EXCEPT !.sent = @ + 1]
    /\ UNCHANGED <<nodes, net, ws, world_in, tg, aborted, bc, call>>

Focus(n) == input.kind = "node" /\ input.focus = n

NodeNext ==
    \/ EnvPeerSend
    \/ EnvWorldSend
    \/ \E n \in Nodes :
           \/ Focus(n) /\ NodeSendBlock(n)
           \/ Focus(n) /\ NodeSendTransactionPaths(n)
           \/ Focus(n) /\ NodeGenerateTransactionPaths(n)
           \/ Focus(n) /\ NodeRequestBlockSync(n)
           \/ Focus(n) /\ NodeResponseBlockSync(n)
           \/ Focus(n) /\ NodeGenerateBlock(n)
           \/ Focus(n) /\ NodeUpdateSlot(n)
           \/ Focus(n) /\ NodeOfflinePeer(n)
           \/ Focus(n) /\ NodeOfflineWorld(n)

SpecNode == InitNode /\ [][NodeNext]_vars

(***************************************************************************)
(* Scoring over the slots (SpecScore): WorldState calls select_proposer of *)
(* its PoG engine in every slot, on its chain as it is then, and adds the  *)
(* blocks the proposers send it.  input holds the validators, the seed and *)
(* the hashes of the last blocks the calls were made on.                   *)
(***************************************************************************)
StakedSnapshots ==
    {vs \in Snapshots : Len(vs) >= 1 /\ \A i \in 1..Len(vs) : vs[i].stake >= 1}

InitScore ==
    /\ ChainIdle
    /\ NetInit
    /\ \E vs \in StakedSnapshots, seed \in 0..(Seeds - 1) :
           input = [kind |-> "score", validators |-> vs, seed |-> seed,
                    scored |-> {}]

\* WorldState::next_slot, the election of the slot.
ScoreSelectProposer ==
    /\ input.kind = "score" /\ ws.ticks < MaxSlots
    /\ LET sel == select_internal(ws.consensus, input.validators, input.seed,
                                  ws.blockchain)
       IN  ws' = [ws EXCEPT !.consensus = sel.consensus, !.ticks = @ + 1]
    /\ input' = [input EXCEPT !.scored = @ \cup {get_last_hash(ws.blockchain)}]
    /\ UNCHANGED <<bc, call, nodes, net, wsq, world_in, tg, aborted>>

\* WorldState::run, SendBlock: the block of a slot's proposer is added.
ScoreReceiveBlock ==
    /\ input.kind = "score"
    /\ \E miner \in Nodes :
       \E block \in PeerBlocks({get_last_index(ws.blockchain) + 1},
                               {get_last_hash(ws.blockchain)}, miner) :
           LET r == add_block(ws.blockchain, block)
           IN  /\ r.tag = "Ok"
               /\ ws' = [ws EXCEPT !.blockchain = r.bc]
    /\ UNCHANGED <<bc, call, input, nodes, net, wsq, world_in, tg, aborted>>

ScoreNext ==
    \/ ScoreSelectProposer
    \/ ScoreReceiveBlock

SpecScore == InitScore /\ [][ScoreNext]_vars

(***************************************************************************)
(* The PoW race (SpecPow): PowConsensus::select_proposer step by step.     *)
(* call holds the shared values of one call: the winner (a set, empty for  *)
(* None), the should_stop flag, the holder of the winner mutex (0 when it  *)
(* is free, MainThread, or the index of a mining thread), the position of  *)
(* the main thread and of every mining thread, the winner recorded when    *)
(* the main thread saw the timeout (at_timeout, empty before), the threads *)
(* that had found a nonce when the clock first read past the timeout, and  *)
(* what the call returned.                                                 *)
(* input holds the validators, and for every validator the first nonce     *)
(* whose hash meets the difficulty (MaxAttempts when there is none in      *)
(* range).  The engine is the one of WorldState.                           *)
(***************************************************************************)
MainThread == -1

PowSnapshots ==
    {vs \in Snapshots : \A i \in 1..Len(vs) : vs[i].stake = 0}

NoResult == [tag |-> "none"]

InitPow ==
    /\ ChainIdle
    /\ \E d \in 0..MaxDifficulty :
           NetInitWith([WorldState_new(Blockchain_new(gen_genesis_block))
                           EXCEPT !.consensus = PowConsensus_new(d)])
    /\ \E vs \in PowSnapshots :
       \E solves \in [1..Len(vs) -> 0..MaxAttempts] :
           input = [kind |-> "pow", validators |-> vs, solves |-> solves]

\* PowConsensus::verify_pow on the hash of the nonce of thread i: every hash
\* has 0 leading zero bits.
verify_pow(i, nonce, difficulty) ==
    difficulty = 0 \/ input.solves[i] = nonce

\* The mining threads that have found a nonce meeting the difficulty.
Finders == {i \in 1..Len(call.threads) : call.threads[i].found}

Racing == call.op = "select_proposer" /\ call.main # "returned"

\* The start of select_proposer: no validator, one validator, or one mining
\* thread spawned per validator.
PowStart ==
    /\ input.kind = "pow" /\ call = NoCall
    /\ LET n == Len(input.validators)
           started == [op |-> "select_proposer", main |-> "returned",
                       late |-> FALSE, polls |-> 0, winner |-> {},
                       should_stop |-> FALSE, lock |-> 0,
                       threads |-> <<>>, at_timeout |-> {},
                       found_at_timeout |-> {},
                       fallback |-> FALSE, result |-> NoResult]
       IN  call' = IF n = 0 THEN [started EXCEPT !.result = NOValidatorError]
                   ELSE IF n = 1
                   THEN [started EXCEPT !.result = Elected(input.validators[1])]
                   ELSE [started EXCEPT
                            !.main = "now",
                            !.threads = [i \in 1..n |->
                                            [pc |-> "check", nonce |-> 0,
                                             found |-> FALSE]]]
    /\ UNCHANGED <<bc, input, nodes, net, wsq, ws, world_in, tg, aborted>>

\* A mining thread at the head of its loop: it returns when should_stop is
\* set or the nonces are used up.
MinerCheck(i) ==
    /\ Racing /\ i <= Len(call.threads) /\ call.threads[i].pc = "check"
    /\ call' = [call EXCEPT !.threads[i].pc =
                   IF call.should_stop \/ call.threads[i].nonce = MaxAttempts
                   THEN "done" ELSE "hash"]
    /\ UNCHANGED <<bc, input, nodes, net, wsq, ws, world_in, tg, aborted>>

\* A mining thread hashes its nonce and verifies the hash.
MinerHash(i) ==
    /\ Racing /\ i <= Len(call.threads) /\ call.threads[i].pc = "hash"
    /\ call' = IF verify_pow(i, call.threads[i].nonce, ws.consensus.difficulty)
               THEN [call EXCEPT !.threads[i].pc = "try_lock",
                                 !.threads[i].found = TRUE]
               ELSE [call EXCEPT !.threads[i].pc = "check",
                                 !.threads[i].nonce = @ + 1]
    /\ UNCHANGED <<bc, input, nodes, net, wsq, ws, world_in, tg, aborted>>

\* winner.try_lock() of a mining thread that found a nonce: without the lock
\* the thread returns.
MinerTryLock(i) ==
    /\ Racing /\ i <= Len(call.threads) /\ call.threads[i].pc = "try_lock"
    /\ call' = IF call.lock = 0
               THEN [call EXCEPT !.lock = i, !.threads[i].pc = "locked"]
               ELSE [call EXCEPT !.threads[i].pc = "done"]
    /\ UNCHANGED <<bc, input, nodes, net, wsq, ws, world_in, tg, aborted>>

\* A thread that records itself whether or not a winner is recorded.
MinerRecord_overwriting(i) ==
    /\ Racing /\ i <= Len(call.threads) /\ call.threads[i].pc = "locked"
    /\ call' = [call EXCEPT !.winner = {i}, !.threads[i].pc = "store"]
    /\ UNCHANGED <<bc, input, nodes, net, wsq, ws, world_in, tg, aborted>>

\* Under the lock: the thread records itself when no winner is recorded.
MinerRecord(i) ==
    /\ Racing /\ i <= Len(call.threads) /\ call.threads[i].pc = "locked"
    /\ call' = IF call.winner = {}
               THEN [call EXCEPT !.winner = {i}, !.threads[i].pc = "store"]
               ELSE [call EXCEPT !.lock = 0, !.threads[i].pc = "done"]
    /\ UNCHANGED <<bc, input, nodes, net, wsq, ws, world_in, tg, aborted>>

\* The winner sets should_stop, drops the lock and returns.
MinerStore(i) ==
    /\ Racing /\ i <= Len(call.threads) /\ call.threads[i].pc = "store"
    /\ call' = [call EXCEPT !.should_stop = TRUE, !.lock = 0,
                            !.threads[i].pc = "done"]
    /\ UNCHANGED <<bc, input, nodes, net, wsq, ws, world_in, tg, aborted>>

\* The main thread reads the clock: after MaxPolls polls the timeout has
\* passed, and it can have passed before.
MainNow ==
    /\ Racing /\ call.main = "now"
    /\ \E late \in BOOLEAN :
           /\ call.late => late
           /\ call.polls >= MaxPolls => late
           /\ call' = [call EXCEPT !.main = "poll", !.late = late,
                                   !.polls = IF @ < MaxPolls THEN @ + 1 ELSE @,
                                   !.found_at_timeout =
                                       IF late /\ ~call.late THEN Finders ELSE @]
    /\ UNCHANGED <<bc, input, nodes, net, wsq, ws, world_in, tg, aborted>>

\* winner.try_lock() of the poll loop.
MainPoll ==
    /\ Racing /\ call.main = "poll"
    /\ call' = IF call.lock = 0
               THEN [call EXCEPT !.lock = MainThread, !.main = "peek"]
               ELSE [call EXCEPT !.main = "timeout"]
    /\ UNCHANGED <<bc, input, nodes, net, wsq, ws, world_in, tg, aborted>>

\* Under the lock: the loop ends when a winner is recorded.
MainPeek ==
    /\ Racing /\ call.main = "peek"
    /\ call' = [call EXCEPT !.lock = 0,
                            !.main = IF call.winner # {} THEN "join"
                                     ELSE "timeout"]
    /\ UNCHANGED <<bc, input, nodes, net, wsq, ws, world_in, tg, aborted>>

\* The timeout check of the poll loop, with the clock read before the poll.
MainTimeout ==
    /\ Racing /\ call.main = "timeout"
    /\ call' = IF call.late
               THEN [call EXCEPT !.should_stop = TRUE, !.main = "join",
                                 !.at_timeout = {call.winner}]
               ELSE [call EXCEPT !.main = "now"]
    /\ UNCHANGED <<bc, input, nodes, net, wsq, ws, world_in, tg, aborted>>

\* handle.join() of every mining thread.
MainJoin ==
    /\ Racing /\ call.main = "join"
    /\ \A i \in 1..Len(call.threads) : call.threads[i].pc = "done"
    /\ call' = [call EXCEPT !.main = "read"]
    /\ UNCHANGED <<bc, input, nodes, net, wsq, ws, world_in, tg, aborted>>

\* The winner is read; without one thread_rng picks a validator and the
\* difficulty goes down by one.
MainRead ==
    /\ Racing /\ call.main = "read"
    /\ LET winner_result == IF call.lock = 0 THEN call.winner ELSE {}
       IN  IF winner_result # {}
           THEN /\ \E i \in winner_result :
                       call' = [call EXCEPT
                                   !.main = "returned",
                                   !.result = Elected(input.validators[i])]
                /\ ws' = ws
           ELSE /\ \E index \in 1..Len(input.validators) :
                       call' = [call EXCEPT
                                   !.main = "returned", !.fallback = TRUE,
                                   !.result = Elected(input.validators[index])]
                /\ ws' = [ws EXCEPT !.consensus.difficulty =
                             IF @ = 0 THEN 0 ELSE @ - 1]
    /\ UNCHANGED <<bc, input, nodes, net, wsq, world_in, tg, aborted>>

MinerStep(i) ==
    \/ MinerCheck(i)
    \/ MinerHash(i)
    \/ MinerTryLock(i)
    \/ MinerRecord(i)
    \/ MinerStore(i)

MainStep ==
    \/ PowStart
    \/ MainNow
    \/ MainPoll
    \/ MainPeek
    \/ MainTimeout
    \/ MainJoin
    \/ MainRead

PowNext ==
    \/ PowStart
    \/ MainNow
    \/ MainPoll
    \/ MainPeek
    \/ MainTimeout
    \/ MainJoin
    \/ MainRead
    \/ \E i \in 1..MaxValidators :
           \/ MinerCheck(i)
           \/ MinerHash(i)
           \/ MinerTryLock(i)
           \/ MinerRecord(i)
           \/ MinerStore(i)

SpecPow == InitPow /\ [][PowNext]_vars

\* The threads are scheduled: a thread that can take a step takes one.
SpecPowFair ==
    /\ SpecPow
    /\ WF_vars(MainStep)
    /\ \A i \in 1..MaxValidators : WF_vars(MinerStep(i))

(***************************************************************************)
(* Properties of the chain (SpecChain).                                    *)
(***************************************************************************)
Appended(chain) == {chain.blocks[i] : i \in 2..Len(chain.blocks)}

SlotBefore(a, b) ==
    \/ a.header.epoch < b.header.epoch
    \/ a.header.epoch = b.header.epoch /\ a.header.slot < b.header.slot

PathsVerify(b) ==
    /\ Len(b.body.transactions) = Len(b.body.paths)
    /\ \A i \in 1..Len(b.body.transactions) :
          AggregatedSignedPaths_verify(b.body.paths[i], b.body.transactions[i],
                                       b.header.miner) = "true"

PathStructure(b) ==
    /\ Len(b.body.transactions) = Len(b.body.paths)
    /\ \A i \in 1..Len(b.body.transactions) :
          LET addresses == b.body.paths[i].paths
          IN  /\ Len(addresses) > 0
              /\ addresses[Len(addresses)] = b.header.miner
              /\ addresses[1] = b.body.transactions[i].from

\* C1: chain linearity.  In every state of the chain, after any sequence of
\* add_block calls and rewinds, every block but the first names the hash of
\* the block before it as its parent, and the block at position i has
\* index i (counting from 0).
C1_ChainLinearity ==
    /\ \A i \in 2..Len(bc.blocks) :
          bc.blocks[i].header.parent_hash = bc.blocks[i - 1].header.hash
    /\ \A i \in 1..Len(bc.blocks) : bc.blocks[i].header.index = i - 1

\* A chain of three blocks, the last one just appended on top of an
\* appended one.
C1_Witness ==
    /\ Len(bc.blocks) = 3
    /\ call.op = "add_block"
    /\ call.result = "Ok"

\* C2: monotone slot clock.  The (epoch, slot) of every block of the chain
\* is strictly greater, lexicographically, than that of the block before it.
C2_SlotsStrictlyIncrease ==
    \A i \in 2..Len(bc.blocks) : SlotBefore(bc.blocks[i - 1], bc.blocks[i])

\* C3: transaction uniqueness.  No transaction hash is in two blocks of the
\* chain.
C3_TransactionUnique ==
    \A i, j \in 1..Len(bc.blocks) :
        i # j => TxHashes(bc.blocks[i]) \cap TxHashes(bc.blocks[j]) = {}

\* add_block has turned down a block for a transaction that is in the chain,
\* on a chain that holds an appended block.
C3_Witness ==
    /\ call.op = "add_block"
    /\ call.result = "TransactionExists"
    /\ \E b \in BlocksOf(bc) : TxHashes(b) \cap TxHashes(call.block) # {}
    /\ Len(bc.blocks) > 1

\* C4: idempotent receipt.  add_block called with a block it appended
\* before, and that is still in the chain, returns DuplicateBlocksReceived
\* and leaves the blocks and the set of seen hashes as they were.
C4_IdempotentReceipt ==
    (call.op = "add_block" /\ call.block \in Appended(call.pre))
        => (call.result = "DuplicateBlocksReceived" /\ bc = call.pre)

\* The reference of claim C5 for add_block.
RefTag(chain, b) ==
    LET tip == get_last_block(chain)
    IN  IF Block_verify(b) # "true" THEN "InvalidBlock"
        ELSE IF b.header.hash = tip.header.hash THEN "DuplicateBlocksReceived"
        ELSE IF b.header.parent_hash # tip.header.hash THEN "ParentHashMismatch"
        ELSE IF b.header.index # tip.header.index + 1 THEN "IndexMismatch"
        ELSE IF b.header.epoch < tip.header.epoch THEN "EpochError"
        ELSE IF b.header.epoch = tip.header.epoch
                /\ b.header.slot <= tip.header.slot THEN "SlotError"
        ELSE IF TxHashes(b) \cap chain.transactions_hash_set # {}
             THEN "TransactionExists"
        ELSE "Ok"

RefChain(chain, b) ==
    IF RefTag(chain, b) = "Ok"
    THEN [blocks |-> chain.blocks \o <<b>>,
          transactions_hash_set |-> chain.transactions_hash_set \cup TxHashes(b)]
    ELSE chain

\* C5: add_block agrees with the reference: every call that returns gives
\* the first applicable tag of InvalidBlock, DuplicateBlocksReceived,
\* ParentHashMismatch, IndexMismatch, EpochError, SlotError (same epoch,
\* slot not greater than the tip's), TransactionExists; without a tag the
\* block is appended and its hashes are added to the seen set; with a tag
\* blocks and seen set are unchanged.
C5_AddBlockReference ==
    (call.op = "add_block" /\ call.result # "panic")
        => /\ call.result = RefTag(call.pre, call.block)
           /\ bc = RefChain(call.pre, call.block)

\* C6: receivers verify on ingest.  Every block appended by add_block has
\* paths that verify against its transactions and its miner, and a block
\* with a path that does not verify is turned down with InvalidBlock.
C6_VerifiedOnIngest ==
    /\ \A b \in Appended(bc) : PathsVerify(b)
    /\ (call.op = "add_block" /\ call.result # "panic"
        /\ ~PathsVerify(call.block))
           => call.result = "InvalidBlock"

\* C7: path structure.  In every block out of Block::new and every block of
\* the chain there are as many paths as transactions, and the addresses of
\* path i end with the miner of the block and start with the originator of
\* transaction i.
C7_PathStructure ==
    /\ \A b \in BlocksOf(bc) : PathStructure(b)
    /\ (call.op = "add_block" /\ call.block \in NewBlocks(call.pre))
           => PathStructure(call.block)

(***************************************************************************)
(* Properties of the verification operations (SpecVerify).                 *)
(***************************************************************************)
VerifyOps ==
    {"verify_by_address", "verify_bls_with_pk", "bls_aggregated_verify",
     "TransactionPaths::verify", "TransactionPaths::verify_last",
     "AggregatedSignedPaths::verify"}

\* C8: verification never panics.  Every verification operation returns a
\* boolean, for every input: well-formed, too short, not hex, with an
\* invalid recovery id, not a curve point, or naming an address without a
\* registered BLS key.
C8_VerifyNeverPanics ==
    call.op \in VerifyOps => call.result \in {"true", "false"}

(***************************************************************************)
(* Properties of path signing (SpecPath).                                  *)
(***************************************************************************)
\* C9: path signing round trip.  The paths built by add_path along any
\* route of wallets pass TransactionPaths::verify for the last wallet, and
\* sealed by from_transaction_paths they pass AggregatedSignedPaths::verify
\* for the last wallet; with the recipient address or the signature of one
\* hop replaced by a different one, both verifications fail.
C9_PathRoundTrip ==
    /\ call.op = "verify" => call.result = "true" /\ call.sealed = "true"
    /\ call.op = "verify_replaced"
          => call.result # "true" /\ call.sealed # "true"

(***************************************************************************)
(* Properties of the network (Spec).                                       *)
(***************************************************************************)
TipsEqual ==
    \A a, b \in Nodes :
        get_last_hash(nodes[a].blockchain) = get_last_hash(nodes[b].blockchain)

\* Every message sent has been handled.
NetDelivered ==
    /\ net = EmptyBag
    /\ \A n \in Nodes : wsq[n] = <<>>
    /\ world_in = EmptyBag

\* Nothing is in flight, every node is alive and online, and every node
\* waits for a sync response: none builds a block or answers a request, so
\* no chain changes in any continuation.
NetSettled ==
    /\ ~aborted
    /\ NetDelivered
    /\ \A n \in Nodes :
           nodes[n].running /\ nodes[n].is_online /\ nodes[n].sync_in_progress

\* Every node waits for a sync response and no block is in flight.
SyncFrozen ==
    /\ \A n \in Nodes : nodes[n].sync_in_progress
    /\ ~\E msg \in BagToSet(net) : msg.type \in {"SendBlock", "ResponseBlockSync"}

\* From then on no chain changes and every node keeps waiting.
SyncFrozenIsStable ==
    [][SyncFrozen =>
           /\ SyncFrozen'
           /\ \A n \in Nodes : nodes'[n].blockchain = nodes[n].blockchain]_vars

\* C10: convergence under gossip and churn.  Once churn has stopped and the
\* messages in flight are delivered the last-block hashes of all nodes become
\* equal and stay equal; block-sync reconciles every fork.  In particular in
\* a state with nothing in flight, all nodes online, and no node able to
\* change its chain any more, all nodes have the same last-block hash.
C10_Convergence == NetSettled => TipsEqual

\* Node n takes the GenerateBlock at the head of what WorldState sent it.
TakesGenerateBlock(n) ==
    /\ wsq[n] # <<>>
    /\ Head(wsq[n]).type = "GenerateBlock"
    /\ wsq'[n] = Tail(wsq[n])

\* C11: an election miss is reported.  When the elected proposer handles
\* GenerateBlock while it is offline or has a sync in progress, it sends
\* WorldState a BlockProductionFailed message for its slot and produces no
\* block.
C11_ElectionMissReported ==
    [][\A n \in Nodes :
           (TakesGenerateBlock(n)
            /\ (~nodes[n].is_online \/ nodes[n].sync_in_progress))
           => /\ CopiesIn(BlockProductionFailedMsg(n, nodes[n].slot), world_in')
                 = CopiesIn(BlockProductionFailedMsg(n, nodes[n].slot), world_in) + 1
              /\ nodes'[n].blockchain = nodes[n].blockchain]_vars

\* The blocks in the chains of the nodes and of WorldState and in the
\* messages in flight.
BlocksInSystem ==
    UNION {BlocksOf(nodes[n].blockchain) : n \in Nodes}
    \cup BlocksOf(ws.blockchain)
    \cup {msg.block : msg \in {m \in BagToSet(net) \cup BagToSet(world_in) :
                                  m.type = "SendBlock"}}
    \cup UNION {{msg.blocks[i] : i \in 1..Len(msg.blocks)} :
                   msg \in {m \in BagToSet(net) : m.type = "ResponseBlockSync"}}

ProducedBlocks == BlocksInSystem \ {gen_genesis_block}

StampOf(block) == <<block.header.epoch, block.header.slot>>

\* The positions of the GenerateBlock messages WorldState has sent node n
\* and n has not handled yet.
PendingGenerateBlock(n) ==
    {i \in 1..Len(wsq[n]) : wsq[n][i].type = "GenerateBlock"}

\* The (epoch, slot) node n will stamp on the block it builds for the
\* GenerateBlock at position i: that of the UpdateSlot it handled last.
RECURSIVE StampAt(_, _)
StampAt(n, i) ==
    IF i = 1 THEN <<nodes[n].epoch, nodes[n].slot>>
    ELSE IF wsq[n][i - 1].type = "UpdateSlot"
    THEN <<wsq[n][i - 1].current_epoch, wsq[n][i - 1].current_slot>>
    ELSE StampAt(n, i - 1)

\* The slot ticks whose UpdateSlot node n has not handled at position i.
TicksBehind(n, i) ==
    Cardinality({j \in i..Len(wsq[n]) : wsq[n][j].type = "UpdateSlot"})

\* C12: at most one block per slot.  No two distinct blocks carry the same
\* (epoch, slot); WorldState has sent GenerateBlock to at most one node per
\* tick, and the node that handles it stamps its block with the (epoch, slot)
\* of the UpdateSlot of the same tick, which no block carries yet.
C12_OneBlockPerSlot ==
    /\ \A b1, b2 \in ProducedBlocks : StampOf(b1) = StampOf(b2) => b1 = b2
    /\ \A n \in Nodes : \A i \in PendingGenerateBlock(n) :
           /\ StampAt(n, i) = <<ClockEpoch(ws.ticks - TicksBehind(n, i)),
                                ClockSlot(ws.ticks - TicksBehind(n, i))>>
           /\ \A b \in ProducedBlocks : StampOf(b) # StampAt(n, i)
           /\ \A m \in Nodes : \A j \in PendingGenerateBlock(m) :
                  StampAt(m, j) = StampAt(n, i) => (m = n /\ j = i)

\* Two blocks have been produced, in different slots.
C12_Witness ==
    \E b1, b2 \in ProducedBlocks :
        b1 # b2 /\ b1.header.miner # b2.header.miner

(***************************************************************************)
(* Properties of the PoG engine.                                           *)
(***************************************************************************)
Abs(x) == IF x < 0 THEN -x ELSE x

Max0(x) == IF x < 0 THEN 0 ELSE x

\* ceil(L*) of a run whose epochs all had the mean L* of the first.
SteadyTarget == CeilDiv(input.sum, input.count)

\* C13: NTD tracking.  If every closed epoch had at least one path and the
\* same mean non-miner path length L*, then after k calls of on_epoch_end NTD
\* differs from ceil(L*) by max(0, |NTD0 - ceil(L*)| - k).
C13_NtdTracking ==
    (input.kind = "pog" /\ input.steady /\ input.k >= 1)
    => Abs(ws.consensus.ntd - SteadyTarget)
       = Max0(Abs(input.ntd0 - SteadyTarget) - input.k)

\* NTD has reached ceil(L*) from two away and stayed there.
C13_Witness ==
    /\ input.kind = "pog" /\ input.steady /\ input.k >= 4
    /\ Abs(input.ntd0 - SteadyTarget) = 2
    /\ ws.consensus.ntd = SteadyTarget

\* C14: NTD lower bound.  In every state of the engine WorldState builds,
\* from construction on, NTD is an integer >= 1.
C14_NtdLowerBound == ws.consensus.ntd \in Nat /\ ws.consensus.ntd >= 1

\* C15: omega evolution.  omega is 0 at construction and on_epoch_end sets it
\* to min(1, omega + 0.1): it stays within [0, 1], and it is 1 from the 10th
\* epoch boundary on, whether or not the closed epochs had paths.
C15_OmegaEvolution ==
    input.kind = "pog"
    => /\ ~F64Less(ws.consensus.omega, F64Zero)
       /\ ~F64Less(F64One, ws.consensus.omega)
       /\ (input.k = 0 => ws.consensus.omega = F64Zero)
       /\ (input.k >= 10 => ws.consensus.omega = F64One)

(***************************************************************************)
(* Properties of the election.                                             *)
(***************************************************************************)
TotalStake(validators) ==
    SumSeq([i \in 1..Len(validators) |-> validators[i].stake])

\* C16: virtual stakes sum to 1.  For every omega in [0, 1], every validator
\* set of positive total stake and every score history, one of scores all 0
\* included, the virtual stakes a PoG selection computes over the validator
\* set sum to 1.
C16_VirtualStakesSumToOne ==
    (input.kind = "select" /\ IsPog(ws.consensus)
     /\ TotalStake(input.validators) > 0)
    => \A i \in 1..Len(input.results) :
          SumMap(input.results[i].s_virtual_map.num)
          = input.results[i].s_virtual_map.den

\* C17: deterministic election.  For every engine, two calls of
\* select_proposer with the same validator snapshot and the same seed return
\* the same validator, whatever the first call did to the engine and however
\* the threads are scheduled.
C17_DeterministicElection ==
    (input.kind = "select" /\ Len(input.results) = 2)
    => input.results[1].result = input.results[2].result

\* The total weight of the call is 0: the stakes for PoS, the virtual stakes
\* for PoG.
ZeroWeight(i) ==
    \/ IsPos(ws.consensus) /\ TotalStake(input.validators) = 0
    \/ IsPog(ws.consensus) /\ SumMap(input.results[i].s_virtual_map.num) = 0

\* C18: NoValidator as a value.  select_proposer called with an empty
\* validator set, or with one whose total weight is 0, returns the NoValidator
\* error; it does not panic.
C18_NoValidatorAsValue ==
    input.kind = "select"
    => \A i \in 1..Len(input.results) :
          (Len(input.validators) = 0 \/ ZeroWeight(i))
          => input.results[i].result = NOValidatorError

(***************************************************************************)
(* Properties of WorldState's timer.                                       *)
(***************************************************************************)
\* The XOR of the seeds of the contributions that come from a validator and
\* carry the address's signature of the seed.
RECURSIVE XorOfValid(_, _)
XorOfValid(validators, contributions) ==
    IF Len(contributions) = 0 THEN 0
    ELSE LET v == Head(contributions)
             rest == XorOfValid(validators, Tail(contributions))
         IN  IF v.address \in validators
                /\ v.signature = Wallet_sign(v.address, v.seed)
             THEN XorBits(v.seed, rest, SeedBits)
             ELSE rest

\* The timer task takes a step: the slot rolls over, or the task ends.
TimerStep == ws.timer /\ (ws'.ticks = ws.ticks + 1 \/ ~ws'.timer)

\* C19: RANDAO fold.  At a slot rollover the next seed is the hash of the XOR
\* of the seeds of exactly the collected contributions whose address is a
\* validator's and whose signature of the seed verifies for the address; the
\* other contributions do not influence it, and the list is emptied.
C19_RandaoFold ==
    [][(input.kind = "slots" /\ TimerStep)
       => /\ ws'.timer
          /\ ws'.next_seed
             = Hasher_hash(XorOfValid(ws.validators, ws.randao_seeds))
          /\ ws'.randao_seeds = <<>>]_vars

\* C20: slot and epoch rollover.  A timer tick moves (epoch, slot) to
\* (epoch, slot + 1) when slot < slots_per_epoch - 1 and to (epoch + 1, 0)
\* when slot = slots_per_epoch - 1, for the configured slots_per_epoch; the
\* slot stays below slots_per_epoch.
C20_SlotEpochRollover ==
    [][(input.kind = "slots" /\ ws'.ticks = ws.ticks + 1)
       => /\ ws.current_slot < input.slot_per_epoch - 1
             => /\ ws'.current_epoch = ws.current_epoch
                /\ ws'.current_slot = ws.current_slot + 1
          /\ ws.current_slot = input.slot_per_epoch - 1
             => /\ ws'.current_epoch = ws.current_epoch + 1
                /\ ws'.current_slot = 0
          /\ ws'.current_slot < input.slot_per_epoch]_vars

\* The stake of the first i validators.
CumulativeStake(validators, i) ==
    SumSeq([k \in 1..i |-> validators[k].stake])

\* Validator i is the first whose cumulative stake exceeds the draw of the
\* seed, total stake * seed / Seeds.
FirstAboveDraw(validators, seed, i) ==
    LET above(k) == CumulativeStake(validators, k) * Seeds
                        > TotalStake(validators) * seed
    IN  above(i) /\ \A k \in 1..(i - 1) : ~above(k)

\* C21: PoS weighted selection.  For a non-empty validator list of positive
\* total stake and every seed, select returns the first validator in list
\* order whose cumulative stake exceeds the draw: a member of the list, of
\* stake above 0, and never the NoValidator error.
C21_PosWeightedSelection ==
    (/\ input.kind = "select" /\ IsPos(ws.consensus)
     /\ Len(input.validators) > 0 /\ TotalStake(input.validators) > 0)
    => \A r \in 1..Len(input.results) :
          /\ input.results[r].result.tag = "ok"
          /\ \E i \in 1..Len(input.validators) :
                /\ input.results[r].result.validator = input.validators[i]
                /\ input.validators[i].stake > 0
                /\ FirstAboveDraw(input.validators, input.seed, i)

\* The first validator has no stake, the draw is 0, and the second is
\* selected.
C21_Witness ==
    /\ input.kind = "select" /\ IsPos(ws.consensus)
    /\ Len(input.validators) = 2 /\ Len(input.results) = 2
    /\ input.validators[1].stake = 0 /\ input.seed = 0
    /\ input.results[1].result = Elected(input.validators[2])

(***************************************************************************)
(* Properties of a node's handlers.                                        *)
(***************************************************************************)
\* Node n takes message msg out of its channel in this step.
TakesPeer(n, msg) ==
    /\ ~aborted /\ nodes[n].running
    /\ msg \in BagToSet(net) /\ msg.to = n
    /\ CopiesIn(msg, net') = CopiesIn(msg, net) - 1

\* The messages node n sends to nodes in this step, msg being the one it
\* takes.
SentAfter(msg) == net' (-) (net (-) SetToBag({msg}))

\* Nothing but the receipt of msg happens to the network.
SendsNothing(msg) ==
    /\ net' = net (-) SetToBag({msg})
    /\ world_in' = world_in

CacheUnique(cache) ==
    \A i, j \in 1..Len(cache) :
        cache[i].transaction.hash = cache[j].transaction.hash => i = j

\* C22: shortest-path cache.  The cache of a node never holds two entries of
\* one transaction hash; handling SendTransactionPaths replaces the entry of
\* a hash only by a strictly shorter path; and a path not shorter than the
\* cached one, or of a transaction in the node's chain, changes neither the
\* cache nor is relayed.
C22_ShortestPathCache ==
    [][input.kind = "node"
       => \A n \in Nodes :
             /\ CacheUnique(nodes'[n].transaction_paths_cache)
             /\ \A msg \in BagToSet(net) :
                   (/\ TakesPeer(n, msg) /\ nodes[n].is_online
                    /\ msg.type = "SendTransactionPaths")
                   => LET cache == nodes[n].transaction_paths_cache
                          same == {i \in 1..Len(cache) :
                                      cache[i].transaction.hash
                                          = msg.tp.transaction.hash}
                      IN  /\ (\/ exist_transaction(nodes[n].blockchain,
                                                   msg.tp.transaction.hash)
                              \/ \E i \in same :
                                    Len(cache[i].paths) <= Len(msg.tp.paths))
                             => /\ nodes'[n] = nodes[n]
                                /\ SendsNothing(msg)
                          /\ nodes'[n].transaction_paths_cache # cache
                             => \A i \in same :
                                   Len(msg.tp.paths) < Len(cache[i].paths)]_vars

\* C23: invalid paths are dropped at receipt.  An online node that handles
\* a SendTransactionPaths message whose transaction signature or newest hop
\* signature does not verify, or whose newest hop is not addressed to the
\* node, leaves its cache as it was, relays nothing and keeps running.
C23_InvalidPathsDropped ==
    [][input.kind = "node"
       => \A n \in Nodes : \A msg \in BagToSet(net) :
             (/\ TakesPeer(n, msg) /\ nodes[n].is_online
              /\ msg.type = "SendTransactionPaths"
              /\ TransactionPaths_verify_last(msg.tp, n) # "true")
             => /\ nodes'[n].transaction_paths_cache
                       = nodes[n].transaction_paths_cache
                /\ SendsNothing(msg)
                /\ nodes'[n].running /\ ~aborted']_vars

\* The transactions of the cache entries that are not in the chain, in the
\* order of the cache.
FreshTransactions(nd) ==
    LET fresh(x) == ~exist_transaction(nd.blockchain, x.transaction.hash)
        taken == SelectSeq(nd.transaction_paths_cache, fresh)
    IN  [i \in 1..Len(taken) |-> taken[i].transaction]

C26_SyncResponseTail ==
    [][input.kind = "node"
       => \A n \in Nodes : \A msg \in BagToSet(net) :
             (/\ TakesPeer(n, msg) /\ nodes[n].is_online
              /\ msg.type = "RequestBlockSync"
              /\ msg.from \in Neighbors(n)
              /\ ~nodes[n].sync_in_progress)
             => LET beyond(b) == b.header.index > msg.index
                    tail == SelectSeq(nodes[n].blockchain.blocks, beyond)
                IN  /\ nodes'[n] = nodes[n]
                    /\ world_in' = world_in
                    /\ SentAfter(msg)
                           = IF tail = <<>> THEN EmptyBag
                             ELSE SetToBag({ResponseBlockSyncMsg(msg.from, tail, n)})]_vars

\* C27: bounded rewind.  Handling one ResponseBlockSync, a node takes at
\* most one block off its tip and never the genesis block, appends blocks of
\* the response only, with indexes tip + 1, tip + 2, ... in this order, and
\* changes nothing when the last index of the response is not above its tip.
C27_BoundedRewind ==
    [][input.kind = "node"
       => \A n \in Nodes : \A msg \in BagToSet(net) :
             (/\ TakesPeer(n, msg) /\ nodes[n].is_online
              /\ msg.type = "ResponseBlockSync")
             => LET old == nodes[n].blockchain.blocks
                    new == nodes'[n].blockchain.blocks
                    tip == get_last_index(nodes[n].blockchain)
                    response == {msg.blocks[i] : i \in 1..Len(msg.blocks)}
                IN  /\ Len(new) >= Len(old) - 1
                    /\ Len(new) >= 1 /\ new[1] = old[1]
                    /\ \A i \in 1..Len(new) :
                          IF i <= Len(old) THEN new[i] = old[i]
                          ELSE /\ new[i] \in response
                               /\ new[i].header.index = tip + (i - Len(old))
                    /\ (msg.blocks # <<>>
                        /\ msg.blocks[Len(msg.blocks)].header.index <= tip)
                       => nodes'[n] = nodes[n] /\ SendsNothing(msg)]_vars

\* A node that asked for the blocks after its tip has since taken the tip
\* off its chain.
C27_Witness ==
    /\ input.kind = "node"
    /\ \E n \in Nodes : \E msg \in BagToSet(net) :
          /\ Focus(n)
          /\ msg.type = "RequestBlockSync" /\ msg.from = n
          /\ get_last_index(nodes[n].blockchain) < msg.index

\* Node n takes the message at the head of its channel from WorldState in
\* this step.
TakesWorld(n) ==
    /\ ~aborted /\ nodes[n].running
    /\ wsq[n] # <<>> /\ wsq'[n] = Tail(wsq[n])

\* C28: offline frame.  An offline node that handles a message other than
\* UpdateSlot keeps its chain, cache, balance, sync flag, epoch, slot and
\* online status and sends nothing to a neighbour; it sends WorldState a
\* BlockProductionFailed message when the message is GenerateBlock and
\* nothing otherwise.
C28_OfflineFrame ==
    [][input.kind = "node"
       => \A n \in Nodes :
             ~nodes[n].is_online
             => /\ \A msg \in BagToSet(net) :
                       TakesPeer(n, msg)
                       => nodes'[n] = nodes[n] /\ SendsNothing(msg)
                /\ (TakesWorld(n) /\ Head(wsq[n]).type # "UpdateSlot")
                   => /\ nodes'[n] = nodes[n]
                      /\ net' = net
                      /\ world_in'
                             = IF Head(wsq[n]).type = "GenerateBlock"
                               THEN world_in (+) SetToBag(
                                        {BlockProductionFailedMsg(n, nodes[n].slot)})
                               ELSE world_in]_vars

\* An offline node has dropped a message of a neighbour that is no longer in
\* flight, and has told WorldState of a block it did not produce.
C28_Witness ==
    /\ input.kind = "node"
    /\ \E n \in Nodes :
          /\ Focus(n) /\ ~nodes[n].is_online
          /\ CopiesIn(BlockProductionFailedMsg(n, nodes[n].slot), world_in) > 0
          /\ input.sent = MaxSent
          /\ ChannelEmpty(n)

\* C29: unstable churn.  Only an Unstable node is ever offline, and an
\* offline node has offline_until_epoch set; a node goes offline only while
\* handling an UpdateSlot that changes its epoch, with offline_until_epoch
\* the new epoch + 1; and an offline node that handles an UpdateSlot of an
\* epoch >= offline_until_epoch is online afterwards with
\* offline_until_epoch cleared, and has sent RequestBlockSync with its last
\* block index to every neighbour.
C29_UnstableChurn ==
    [][input.kind = "node"
       => \A n \in Nodes :
             LET nd == nodes[n]
                 after == nodes'[n]
                 slot_update == TakesWorld(n) /\ Head(wsq[n]).type = "UpdateSlot"
                 msg == Head(wsq[n])
             IN  /\ ~after.is_online
                    => after.node_type = "Unstable" /\ after.offline_until_epoch # {}
                 /\ (nd.is_online /\ ~after.is_online)
                    => /\ slot_update
                       /\ msg.current_epoch # nd.epoch
                       /\ after.offline_until_epoch = {msg.current_epoch + 1}
                 /\ (/\ slot_update /\ ~nd.is_online
                     /\ \E e \in nd.offline_until_epoch : msg.current_epoch >= e)
                    => /\ after.is_online /\ after.offline_until_epoch = {}
                       /\ net' = net (+) SetToBag(
                              {RequestBlockSyncMsg(
                                   k, get_last_index(nd.blockchain), n) :
                                 k \in Neighbors(n)})]_vars

\* C30: fee payment.  deduct_balance(amount) returns true and subtracts
\* amount exactly when balance >= amount, and otherwise returns false and
\* leaves the balance; the balance of a node is never negative; and a node
\* that handles GenerateTransactionPaths with balance < transaction_fee
\* caches nothing and sends no message.
C30_FeePayment ==
    [][input.kind = "node"
       => \A n \in Nodes :
             LET nd == nodes[n]
             IN  /\ \A amount \in 0..MaxFee :
                       LET d == deduct_balance(nd, amount)
                       IN  /\ d.ok <=> nd.balance >= amount
                           /\ d.node.balance = IF nd.balance >= amount
                                               THEN nd.balance - amount
                                               ELSE nd.balance
                 /\ nodes'[n].balance >= 0
                 /\ \A msg \in BagToSet(net) :
                       (/\ TakesPeer(n, msg) /\ nd.is_online
                        /\ msg.type = "GenerateTransactionPaths")
                       => IF nd.balance < nd.transaction_fee
                          THEN nodes'[n] = nd /\ SendsNothing(msg)
                          ELSE nodes'[n].balance
                                   = nd.balance - nd.transaction_fee]_vars

\* A node has paid the fee of one transaction and has then been asked for a
\* second one that its balance does not cover: the first is in its cache
\* and nothing else.
C30_Witness ==
    /\ input.kind = "node"
    /\ \E n \in Nodes :
          /\ Focus(n)
          /\ nodes[n].transaction_fee > 0
          /\ nodes[n].balance < nodes[n].transaction_fee
          /\ tg.created = 2
          /\ Len(nodes[n].transaction_paths_cache) = 1

(***************************************************************************)
(* Properties of the PoW race (SpecPow).                                   *)
(***************************************************************************)
AllMinersDone ==
    /\ call.op = "select_proposer"
    /\ \A i \in 1..Len(call.threads) : call.threads[i].pc = "done"

SaturatingSub1(x) == IF x = 0 THEN 0 ELSE x - 1

PowReturns == Racing /\ call.main = "read" /\ call'.main = "returned"

C39_FoundSolutionWins ==
    [][(input.kind = "pow" /\ call.op = "select_proposer"
        /\ Len(input.validators) >= 2 /\ PowReturns)
       => LET in_time == IF ~call.late THEN Finders
                         ELSE call.found_at_timeout
          IN  in_time # {}
              => /\ ~call'.fallback
                 /\ ws'.consensus = ws.consensus
                 /\ \E i \in Finders :
                       call'.result = Elected(input.validators[i])]_vars

(***************************************************************************)
(* Properties of the scoring over the slots (SpecScore).                   *)
(***************************************************************************)
\* C32: each block is scored once.  A select_proposer call on a last block
\* that an earlier call was made on adds no contribution of this block to
\* the score history: the history is the one an empty contribution gives.
C32_BlockScoredOnce ==
    [][(input.kind = "score" /\ ws'.ticks = ws.ticks + 1
        /\ get_last_hash(ws.blockchain) \in input.scored)
       => ws'.consensus.score_history
              = update_score_history(ws.consensus, <<>>,
                                     input.validators).score_history]_vars

(***************************************************************************)
(* Properties of the seen set (SpecChain)                                  *)
(***************************************************************************)

\* The hashes of the transactions of the blocks that are in the chain now.
ChainTxHashes(chain) ==
    UNION {TxHashes(chain.blocks[i]) : i \in 1..Len(chain.blocks)}

\* C33: after any sequence of add_block calls and tip removals of block-sync
\* the set of seen transaction hashes is exactly the set of the hashes of the
\* transactions of the blocks that are in the chain, so that a transaction
\* of a removed block can be included again.
C33_SeenSetConsistency ==
    bc.transactions_hash_set = ChainTxHashes(bc)

(***************************************************************************)
(* Properties of the block assembly (SpecNode)                             *)
(***************************************************************************)

\* C34: block assembly terminates.  cal_merkle_root terminates for every
\* list of leaves, the empty one too, so that a node that handles
\* GenerateBlock with no cached transaction that is not in its chain comes
\* out of generate_block, with a block or with an error.
C34_BlockAssemblyTerminates ==
    [][input.kind = "node"
       => \A n \in Nodes :
             (TakesGenerateBlock(n) /\ nodes[n].is_online /\ nodes[n].running
              /\ ~nodes[n].sync_in_progress /\ ~aborted
              /\ FreshTransactions(nodes[n]) = <<>>)
             => ~aborted']_vars

\* Entry e of a cache is in the cache after, or an entry of a strictly
\* shorter path of its transaction is.
KeptOrShortened(e, after) ==
    \E j \in 1..Len(after) :
        /\ after[j].transaction.hash = e.transaction.hash
        /\ (after[j] = e \/ Len(after[j].paths) < Len(e.paths))

\* C38: no pending transaction is lost.  An entry leaves the cache of a
\* node only when a strictly shorter path of its transaction takes its place
\* or when its transaction is in a block of the node's chain; in particular
\* the entries that a failing GenerateBlock drained are in the cache after
\* it.
C38_NoPendingTransactionLost ==
    [][input.kind = "node"
       => \A n \in Nodes :
             (nodes[n].running /\ nodes'[n].running /\ ~aborted /\ ~aborted')
             => LET cache == nodes[n].transaction_paths_cache
                IN  \A i \in 1..Len(cache) :
                       \/ KeptOrShortened(cache[i],
                                          nodes'[n].transaction_paths_cache)
                       \/ cache[i].transaction.hash
                              \in ChainTxHashes(nodes'[n].blockchain)]_vars

(***************************************************************************)
(* Properties of the collection of the contributions (SpecRandao)          *)
(***************************************************************************)
\* The positions of the collected contributions that combine_seed XORs into
\* the seed for address a.
FoldedShares(w, a) ==
    {i \in 1..Len(w.randao_seeds) :
        /\ w.randao_seeds[i].address = a
        /\ a \in w.validators
        /\ Wallet_verify_by_address(w.randao_seeds[i].seed,
                                    w.randao_seeds[i].signature, a) = "true"}

\* C40: one seed share per validator per slot.  At a slot rollover at most
\* one contribution signed by an address is XORed into the combined seed of
\* the slot, also when Sybil addresses are served by the mailbox of one node
\* and when a contribution arrives after the rollover of its slot.
C40_OneSharePerValidator ==
    [][(input.kind = "randao" /\ ws'.ticks = ws.ticks + 1)
       => \A a \in ws.validators :
             Cardinality(FoldedShares(ws, a)) <= 1]_vars

(***************************************************************************)
(* Properties of the flood of a transaction (SpecGossipFair)               *)
(***************************************************************************)
\* No message of the flood is in a mailbox.
GossipQuiet ==
    \A msg \in BagToSet(net) :
        msg.type \notin {"GenerateTransactionPaths", "SendTransactionPaths"}

\* The directed edges of the graph.
DirectedEdges ==
    {<<n, k>> \in GossipNodes \X GossipNodes : k \in input.neighbors[n]}

\* C37: gossip terminates.  In a fixed finite graph without block
\* production the flood of one transaction comes to an end: no more
\* SendTransactionPaths messages are sent than a node can take shorter
\* paths over the edges of the graph, and in the end no message of the
\* flood is left in a mailbox.
C37_GossipTerminates ==
    /\ [](input.kind = "gossip"
          => input.sent <= Cardinality(DirectedEdges) * Cardinality(GossipNodes))
    /\ <>[]GossipQuiet

\* The flood has come to an end in a graph with a cycle: every node holds
\* the transaction and a node has turned down a path that was not shorter.
C37_Witness ==
    /\ input.kind = "gossip"
    /\ GossipQuiet
    /\ \A n \in GossipNodes :
           /\ Cardinality(input.neighbors[n]) = 2
           /\ Len(nodes[n].transaction_paths_cache) = 1
    /\ input.sent > Cardinality(GossipNodes)

(***************************************************************************)
(* Properties of the block-sync of the network (SpecSyncFair)              *)
(***************************************************************************)
\* Every node is online and runs, and the process has not been aborted.
AllOnline ==
    /\ ~aborted
    /\ \A n \in Nodes : nodes[n].is_online /\ nodes[n].running

\* C35: the sync flag is eventually cleared.  Under fair delivery, with
\* every node online, a node whose sync_in_progress is set (after a
\* ParentHashMismatch on SendBlock) has it cleared at some later time.
C35_SyncFlagCleared ==
    []AllOnline
    => \A n \in Nodes :
          nodes[n].sync_in_progress ~> ~nodes[n].sync_in_progress

(***************************************************************************)
(* Properties of the tasks and their mailboxes (SpecMailbox)               *)
(***************************************************************************)
\* The timer task waits, with the write lock, for room in the mailbox of a
\* node, whose task waits for room in WorldState's mailbox, whose receiver
\* task waits for the write lock.
WaitCycle ==
    /\ call.op = "mailboxes"
    /\ call.lock = "timer" /\ call.timer = "send" /\ call.todo # <<>>
    /\ Len(wsq[Head(call.todo).to]) >= MailboxCapacity
    /\ call.actor[Head(call.todo).to] = "send"
    /\ BagCardinality(world_in) >= WorldMailboxCapacity
    /\ call.receiver = "lock"

\* C36: deadlock freedom with bounded mailboxes.  The timer task of
\* WorldState, its receiver task and the task of a node never wait on each
\* other for ever: the timer for room in the node's mailbox while it holds
\* the write lock, the node for room in WorldState's mailbox, the receiver
\* for the lock.
C36_NoMailboxDeadlock == ~WaitCycle

====
